---- MODULE Spec2Model ----
(***************************************************************************)
(* Model of the notification service: the WebSocket connection hub         *)
(* (internal/infrastructure/websocket/hub.go), the per-connection pumps    *)
(* (internal/handler/websocket.go) and the dispatch orchestrator           *)
(* (service.NotificationService).                                          *)
(***************************************************************************)
EXTENDS Integers, Sequences, FiniteSets, TLC

\* ------------------------------------------------------------------ bounds
\* Capacity of a client's Send channel (256 in the program, scaled down).
MailboxCap == 2
\* Capacity of the hub's broadcast channel (256 in the program, scaled down).
BroadcastCap == 2
\* Number of notifications the abstract Notify caller may create.
MaxNotifs == 3

\* Longest channel list of a send request.
MaxChannels == 2

\* ------------------------------------------------------------- universes
Users == {"u1", "u2"}
Conns == {"c1", "c2", "c3"}

\* Client.UserID: fixed when HandleConnection builds the client.
UserID(c) == IF c = "c3" THEN "u2" ELSE "u1"

NoCall == [user |-> "none", id |-> 0, status |-> "none"]

\* domain.NotificationType
Channels == {"email", "push", "in_app"}

\* SendRequest.Template values; the first two are the ones Send lets through
\* quiet hours.
Templates == {"otp_verification", "password_reset", "marketing"}
Critical == {"otp_verification", "password_reset"}

\* A nil *time.Time
Nil == -1
\* Quiet-hours windows (minutes of the day) a stored row may hold, and the
\* times of day a request may arrive at.
Windows == {<<Nil, Nil>>, <<1320, 420>>}
Clock == {720, 1380}

ChannelLists == UNION {[1..k -> Channels] : k \in 1..MaxChannels}

\* domain.NewDefaultPreferences
NewDefaultPreferences ==
    [EmailEnabled |-> TRUE, PushEnabled |-> TRUE, ChannelSettings |-> << >>,
     QuietHoursStart |-> Nil, QuietHoursEnd |-> Nil]

\* Contents of the channels column a stored row may hold: no entry, or an
\* entry for the key "marketing".
Overrides == {<< >>} \cup {("marketing" :> b) : b \in BOOLEAN}

\* Rows of notification_preferences the request may find for its user.
NoRow == [exists |-> FALSE, EmailEnabled |-> TRUE, PushEnabled |-> TRUE,
          channels |-> << >>, QuietHoursStart |-> Nil, QuietHoursEnd |-> Nil]
StoredRows ==
    {NoRow} \cup
    {[exists |-> TRUE, EmailEnabled |-> e, PushEnabled |-> p, channels |-> o,
      QuietHoursStart |-> w[1], QuietHoursEnd |-> w[2]] :
        e \in BOOLEAN, p \in BOOLEAN, o \in Overrides, w \in Windows}

\* The send requests of the orchestrator specification.
SendRequests ==
    [user : {"u1"}, hasEmail : BOOLEAN, channels : ChannelLists,
     template : Templates]
\* What a request may find: which senders main.go configured, the stored
\* preferences row, whether reading it fails, and the time of day.
SendEnvs ==
    [emailSender : BOOLEAN, pushSender : BOOLEAN, stored : StoredRows,
     getErr : BOOLEAN, now : Clock]

\* The requests of the in-app specification: in_app channels only, for a
\* user without a stored row, with both senders configured.
InAppRequests ==
    {r \in [user : Users, hasEmail : {FALSE}, channels : ChannelLists,
            template : {"marketing"}] :
        \A k \in 1..Len(r.channels) : r.channels[k] = "in_app"}
InAppEnvs ==
    [emailSender : {TRUE}, pushSender : {TRUE}, stored : {NoRow},
     getErr : {FALSE}, now : {720}]

NoReq == [user |-> "none", hasEmail |-> FALSE, channels |-> << >>,
          template |-> "none"]
NoEnv == [emailSender |-> FALSE, pushSender |-> FALSE, stored |-> NoRow,
          getErr |-> FALSE, now |-> 0]
RetNil == [nil |-> TRUE, errors |-> << >>]

\* Minutes of the day (Hour()*60 + Minute()) the quiet-hours test is tried
\* with: midnight, the last minute, and the minutes around 07:00 and 22:00.
Minutes == {0, 419, 420, 421, 1319, 1320, 1321, 1439}
\* Keys of ChannelSettings and arguments of IsChannelEnabled: channel names
\* and template names.
Keys == {"email", "push", "marketing"}
KeyMaps == UNION {[K -> BOOLEAN] : K \in SUBSET Keys}
\* The preference values the two methods are tried on.
GatePrefs ==
    [EmailEnabled : BOOLEAN, PushEnabled : BOOLEAN, ChannelSettings : KeyMaps,
     QuietHoursStart : Minutes \cup {Nil}, QuietHoursEnd : Minutes \cup {Nil}]
NoGate == [prefs |-> NewDefaultPreferences, now |-> 0, key |-> "none",
           quietCalled |-> FALSE, quiet |-> FALSE,
           enabledCalled |-> FALSE, enabled |-> FALSE]

\* domain.NotificationStatus
Statuses == {"pending", "sending", "sent", "delivered", "failed"}
\* Last value time.Now() takes in the record specifications.
MaxClock == 4
\* No *Notification held; no call made yet.
NoMem == [id |-> 0, user |-> "none", type |-> "none", status |-> "none",
          ReadAt |-> Nil]
NoOp == [op |-> "none", id |-> 0, user |-> "none", dbErr |-> FALSE,
         result |-> "none"]

\* Device tokens (DeviceToken.Token) and the provider's answer per token.
Tokens == {"t1", "t2"}
Responses == {"ok", "unregistered", "invalid", "unavailable"}
\* Number of SendToUser calls followed.
MaxPushes == 3
NoPush == [seq |-> 0, user |-> "none", addressed |-> {}, resp |-> << >>,
           ret |-> "none"]

\* Run is between two messages
RunIdle == [pc |-> "select", msg |-> NoCall, todo |-> {}]

\* The read-only functions of the hub, and no call of them in progress
ReadOps == {"GetConnectedUsers", "GetTotalConnections", "IsUserConnected"}
NoRead == [pc |-> "idle", op |-> "none", user |-> "none", seen |-> {},
           result |-> Nil, raced |-> FALSE]

VARIABLES
    clients,      \* Hub.clients: user id -> set of registered clients
    broadcast,    \* Hub.broadcast: buffered channel of BroadcastMessage
    Send,         \* Client.Send: buffered channel contents, per client
    sendClosed,   \* whether Client.Send has been closed
    hubPanic,     \* the hub goroutine panicked (double close / send on closed)
    connPc,       \* position of the goroutine that owns the connection
    wp,           \* position of the client's writePump
    transport,    \* state of Client.Conn
    notifyCall,   \* the BroadcastMessage of the Notify call in progress
    nextId,       \* next notification id (uuid.New())
    notifyRet,    \* what the last completed Notify call returned
    dropped,      \* clients removed by an overflow drop in broadcastToUser
    lastMsg,      \* the message broadcastToUser handled last
    pc,           \* position of the goroutine executing NotificationService.Send
    req,          \* the SendRequest
    env,          \* what the request finds: configured senders, stored row, clock
    prefs,        \* the preferences Send works with
    i,            \* index of the channel the loop of Send is at
    errors,       \* the errors slice of Send
    ret,          \* what Send returned
    cur,          \* id of the record the current send path created
    store,        \* the notifications table: id -> row
    attempts,     \* the send paths invoked so far, with what happened in each
    gate,         \* a NotificationPreferences value with the arguments and
                  \* results of the calls of its two methods
    mem,          \* the *Notification a caller holds in memory
    clock,        \* time.Now()
    lastOp,       \* the last call on a record and what it returned
    tokens,       \* the device_tokens table: token -> row
    lastPush,     \* the last SendToUser call: tokens addressed, responses
    rejected,     \* tokens the provider rejected as unregistered or invalid
                  \* and that were not registered again since
    mu,           \* Hub.mu: the goroutines holding the read lock
    run,          \* position of Run inside broadcastToUser
    rd,           \* a goroutine calling one of the read-only functions
    written,      \* per client: the text messages written to Client.Conn,
                  \* each the payloads of one flush
    wbuf          \* per client: the payload writePump has received from
                  \* Client.Send and not yet flushed

hubVars == <<clients, broadcast, Send, sendClosed, hubPanic, dropped>>
connVars == <<connPc, wp, transport>>
callVars == <<notifyCall, nextId, notifyRet>>
sendVars == <<pc, req, env, prefs, i, errors, ret, cur, store, attempts>>
gateVars == <<gate>>
recVars == <<mem, clock, lastOp>>
pushVars == <<tokens, lastPush, rejected>>
lockVars == <<mu, run, rd>>
pumpVars == <<written, wbuf>>
restVars == <<gateVars, recVars, pushVars, lockVars, pumpVars>>
vars == <<clients, broadcast, Send, sendClosed, hubPanic, dropped,
          connPc, wp, transport, notifyCall, nextId, notifyRet, lastMsg,
          pc, req, env, prefs, i, errors, ret, cur, store, attempts,
          gate, mem, clock, lastOp, tokens, lastPush, rejected,
          mu, run, rd, written, wbuf>>

\* ---------------------------------------------------------------- helpers
\* The registry as a set of (user, client) pairs.
Registered == {c \in Conns : \E u \in DOMAIN clients : c \in clients[u]}

BucketsOf(c) == {u \in DOMAIN clients : c \in clients[u]}

\* json.Marshal(message.Notification): the record's fields as one payload.
Marshal(n) == <<"id", n.id, "user_id", n.user, "status", n.status>>

\* ------------------------------------------------- hub handlers (hub.go)
\* The registry part of the state the three handlers work on.
HubState == [clients |-> clients, Send |-> Send, sendClosed |-> sendClosed,
             hubPanic |-> hubPanic, dropped |-> dropped]

\* close(ch) panics when ch is already closed.
CloseChan(s, c) ==
    IF s.sendClosed[c]
    THEN [s EXCEPT !.hubPanic = TRUE]
    ELSE [s EXCEPT !.sendClosed[c] = TRUE]

\* delete(h.clients, user)
DeleteKey(m, u) == [k \in DOMAIN m \ {u} |-> m[k]]

\* Variant: a client is added only when its user has no bucket yet.
registerClient_NewBucketOnly(s, c) ==
    LET u == UserID(c)
    IN IF u \in DOMAIN s.clients
       THEN s
       ELSE [s EXCEPT !.clients = [k \in DOMAIN s.clients \cup {u} |->
                                      IF k = u THEN {c} ELSE s.clients[k]]]

\* h.clients[user][client] = true, creating the bucket when it is nil
registerClient(s, c) ==
    LET u == UserID(c)
        bucket == IF u \in DOMAIN s.clients THEN s.clients[u] ELSE {}
    IN [s EXCEPT !.clients = [k \in DOMAIN s.clients \cup {u} |->
                                 IF k = u THEN bucket \cup {c}
                                 ELSE s.clients[k]]]

\* Variant: the channel is closed without looking the client up first.
unregisterClient_Unguarded(s, c) ==
    LET u == UserID(c)
        s2 == CloseChan(s, c)
    IN IF u \in DOMAIN s2.clients
       THEN IF s2.clients[u] \ {c} = {}
            THEN [s2 EXCEPT !.clients = DeleteKey(s2.clients, u)]
            ELSE [s2 EXCEPT !.clients[u] = @ \ {c}]
       ELSE s2

\* Variant: the channel is closed but the client stays in its bucket.
unregisterClient_KeepsEntry(s, c) ==
    LET u == UserID(c)
    IN IF u \in DOMAIN s.clients /\ c \in s.clients[u]
       THEN CloseChan(s, c)
       ELSE s

unregisterClient(s, c) ==
    LET u == UserID(c)
    IN IF u \in DOMAIN s.clients /\ c \in s.clients[u]
       THEN LET s1 == [s EXCEPT !.clients[u] = @ \ {c}]
                s2 == CloseChan(s1, c)
            IN IF s2.clients[u] = {}
               THEN [s2 EXCEPT !.clients = DeleteKey(s2.clients, u)]
               ELSE s2
       ELSE s

\* Variant: a full client is deleted from the bucket but its channel is
\* left open.
SendOrDrop_NoClose(s, u, c, data) ==
    IF s.sendClosed[c]
    THEN [s EXCEPT !.hubPanic = TRUE]
    ELSE IF Len(s.Send[c]) < MailboxCap
    THEN [s EXCEPT !.Send[c] = Append(@, data)]
    ELSE [s EXCEPT !.clients[u] = @ \ {c}, !.dropped = @ \cup {c}]

\* Variant: a full client has its channel closed but stays in the bucket.
SendOrDrop_CloseOnly(s, u, c, data) ==
    IF s.sendClosed[c]
    THEN [s EXCEPT !.hubPanic = TRUE]
    ELSE IF Len(s.Send[c]) < MailboxCap
    THEN [s EXCEPT !.Send[c] = Append(@, data)]
    ELSE LET s1 == CloseChan(s, c)
         IN [s1 EXCEPT !.dropped = @ \cup {c}]

\* One iteration of the range loop in broadcastToUser: non-blocking send,
\* or close + delete from the bucket when the buffer is full.
SendOrDrop(s, u, c, data) ==
    IF s.sendClosed[c]
    THEN [s EXCEPT !.hubPanic = TRUE]          \* send on closed channel
    ELSE IF Len(s.Send[c]) < MailboxCap
    THEN [s EXCEPT !.Send[c] = Append(@, data)]
    ELSE LET s1 == CloseChan(s, c)
         IN [s1 EXCEPT !.clients[u] = @ \ {c},
                       !.dropped = @ \cup {c}]

RECURSIVE RangeClients(_, _, _, _)
RangeClients(s, u, todo, data) ==
    IF todo = {} THEN s
    ELSE LET c == CHOOSE x \in todo : TRUE
         IN RangeClients(SendOrDrop(s, u, c, data), u, todo \ {c}, data)

\* Variant: the loop returns after the first client.
broadcastToUser_FirstOnly(s, message) ==
    IF message.user \notin DOMAIN s.clients \/ s.clients[message.user] = {}
    THEN s
    ELSE RangeClients(s, message.user,
                      {CHOOSE x \in s.clients[message.user] : TRUE},
                      Marshal(message))

\* Variant: the message's user id is ignored, every bucket is served.
RECURSIVE broadcastToUser_AllUsers_(_, _, _)
broadcastToUser_AllUsers_(s, us, message) ==
    IF us = {} THEN s
    ELSE LET u == CHOOSE x \in us : TRUE
         IN broadcastToUser_AllUsers_(
                RangeClients(s, u, s.clients[u], Marshal(message)),
                us \ {u}, message)

broadcastToUser_AllUsers(s, message) ==
    broadcastToUser_AllUsers_(s, DOMAIN s.clients, message)

broadcastToUser(s, message) ==
    IF message.user \notin DOMAIN s.clients
    THEN s
    ELSE RangeClients(s, message.user, s.clients[message.user],
                      Marshal(message))

\* Read-only introspection
GetConnectedUsers == Cardinality(DOMAIN clients)

RECURSIVE SumSizes(_)
SumSizes(us) ==
    IF us = {} THEN 0
    ELSE LET u == CHOOSE x \in us : TRUE
         IN Cardinality(clients[u]) + SumSizes(us \ {u})

GetTotalConnections == SumSizes(DOMAIN clients)

IsUserConnected(u) == u \in DOMAIN clients /\ Cardinality(clients[u]) > 0

\* Install the result of a handler into the variables.
SetHub(s) ==
    /\ clients' = s.clients
    /\ Send' = s.Send
    /\ sendClosed' = s.sendClosed
    /\ hubPanic' = s.hubPanic
    /\ dropped' = s.dropped

\* -------------------------------------------------------------- initial
\* NewHub, and no connection accepted yet
HubInit ==
    /\ clients = << >>
    /\ broadcast = << >>
    /\ Send = [c \in Conns |-> << >>]
    /\ sendClosed = [c \in Conns |-> FALSE]
    /\ hubPanic = FALSE
    /\ dropped = {}
    /\ connPc = [c \in Conns |-> "new"]
    /\ wp = [c \in Conns |-> "none"]
    /\ transport = [c \in Conns |-> "up"]
    /\ notifyCall = NoCall
    /\ nextId = 1
    /\ notifyRet = "none"
    /\ lastMsg = NoCall

\* No Send call in progress, empty notifications table
SendInit ==
    /\ pc = "idle"
    /\ req = NoReq
    /\ env = NoEnv
    /\ prefs = NewDefaultPreferences
    /\ i = 0
    /\ errors = << >>
    /\ ret = RetNil
    /\ cur = 0
    /\ store = << >>
    /\ attempts = << >>

\* No record held in memory, no call made on a record yet
RecInit ==
    /\ mem = NoMem
    /\ clock = 1
    /\ lastOp = NoOp

\* Empty device_tokens table, no push sent yet
PushInit ==
    /\ tokens = << >>
    /\ lastPush = NoPush
    /\ rejected = {}

\* Nobody holds Hub.mu, Run waits in its select, no reader is inside
LockInit ==
    /\ mu = {}
    /\ run = RunIdle
    /\ rd = NoRead

\* Nothing written to any connection yet
PumpInit ==
    /\ written = [c \in Conns |-> << >>]
    /\ wbuf = [c \in Conns |-> << >>]

Init ==
    /\ HubInit
    /\ SendInit
    /\ gate = NoGate
    /\ RecInit
    /\ PushInit
    /\ LockInit
    /\ PumpInit

\* ------------------------------------------------ connection lifecycle
\* HandleConnection: build the client and call hub.Register, which blocks
\* on the unbuffered register channel until Run receives.
HandleConnection(c) ==
    /\ connPc[c] = "new"
    /\ connPc' = [connPc EXCEPT ![c] = "registering"]
    /\ UNCHANGED <<hubVars, wp, transport, callVars, lastMsg, sendVars, restVars>>

\* Run, case client := <-h.register; the handler then starts both pumps.
RunRegister(c) ==
    /\ ~hubPanic
    /\ connPc[c] = "registering"
    /\ SetHub(registerClient(HubState, c))
    /\ connPc' = [connPc EXCEPT ![c] = "reading"]
    /\ wp' = [wp EXCEPT ![c] = "running"]
    /\ UNCHANGED <<broadcast, transport, callVars, lastMsg, sendVars, restVars>>

\* The peer goes away or the read deadline passes.
TransportFailure(c) ==
    /\ connPc[c] = "reading"
    /\ transport[c] = "up"
    /\ transport' = [transport EXCEPT ![c] = "down"]
    /\ UNCHANGED <<hubVars, connPc, wp, callVars, lastMsg, sendVars, restVars>>

\* Variant: readPump returns without calling hub.Unregister.
readPump_NoUnregister(c) ==
    /\ connPc[c] = "reading"
    /\ transport[c] = "down"
    /\ connPc' = [connPc EXCEPT ![c] = "done"]
    /\ UNCHANGED <<hubVars, wp, transport, callVars, lastMsg, sendVars, restVars>>

\* readPump: ReadMessage fails, the deferred hub.Unregister blocks on the
\* unbuffered unregister channel.
readPump(c) ==
    /\ connPc[c] = "reading"
    /\ transport[c] = "down"
    /\ connPc' = [connPc EXCEPT ![c] = "unregistering"]
    /\ UNCHANGED <<hubVars, wp, transport, callVars, lastMsg, sendVars, restVars>>

\* Run, case client := <-h.unregister; readPump then closes the Conn.
RunUnregister(c) ==
    /\ ~hubPanic
    /\ connPc[c] = "unregistering"
    /\ SetHub(unregisterClient(HubState, c))
    /\ connPc' = [connPc EXCEPT ![c] = "done"]
    /\ UNCHANGED <<broadcast, wp, transport, callVars, lastMsg, sendVars, restVars>>

\* writePump, case message, ok := <-client.Send
writePump(c) ==
    /\ wp[c] = "running"
    /\ \/ /\ Send[c] # << >>
          /\ IF transport[c] = "up"
             THEN \* one flush: the message and everything queued behind it
                  /\ Send' = [Send EXCEPT ![c] = << >>]
                  /\ UNCHANGED <<wp, transport>>
             ELSE \* NextWriter fails: return, deferred Conn.Close
                  /\ Send' = [Send EXCEPT ![c] = Tail(@)]
                  /\ wp' = [wp EXCEPT ![c] = "exited"]
                  /\ UNCHANGED transport
       \/ \* the hub closed the channel
          /\ Send[c] = << >>
          /\ sendClosed[c]
          /\ wp' = [wp EXCEPT ![c] = "exited"]
          /\ transport' = [transport EXCEPT ![c] = "down"]
          /\ UNCHANGED Send
       \/ \* case <-ticker.C: the ping cannot be written
          /\ transport[c] = "down"
          /\ wp' = [wp EXCEPT ![c] = "exited"]
          /\ UNCHANGED <<Send, transport>>
    /\ UNCHANGED <<clients, broadcast, sendClosed, hubPanic, dropped,
                   connPc, callVars, lastMsg, sendVars, restVars>>

\* ------------------------------------------------------------- notify
\* A caller enters Hub.Notify(ctx, userID, notification).
CallNotify(u) ==
    /\ notifyCall = NoCall
    /\ nextId <= MaxNotifs
    /\ notifyCall' = [user |-> u, id |-> nextId, status |-> "sent"]
    /\ nextId' = nextId + 1
    /\ UNCHANGED <<hubVars, connVars, notifyRet, lastMsg, sendVars, restVars>>

\* Variant: a full buffer makes Notify give up with an error.
Notify_ErrWhenFull ==
    /\ notifyCall # NoCall
    /\ IF Len(broadcast) < BroadcastCap
       THEN broadcast' = Append(broadcast, notifyCall) /\ notifyRet' = "nil"
       ELSE broadcast' = broadcast /\ notifyRet' = "err"
    /\ notifyCall' = NoCall
    /\ UNCHANGED <<clients, Send, sendClosed, hubPanic, dropped,
                   connVars, nextId, lastMsg, sendVars, restVars>>

\* Hub.Notify: h.broadcast <- message; return nil.  Blocks while the
\* buffer is full.
Notify ==
    /\ notifyCall # NoCall
    /\ Len(broadcast) < BroadcastCap
    /\ broadcast' = Append(broadcast, notifyCall)
    /\ notifyCall' = NoCall
    /\ notifyRet' = "nil"
    /\ UNCHANGED <<clients, Send, sendClosed, hubPanic, dropped,
                   connVars, nextId, lastMsg, sendVars, restVars>>

\* Run, case message := <-h.broadcast
RunBroadcast ==
    /\ ~hubPanic
    /\ broadcast # << >>
    /\ SetHub(broadcastToUser(HubState, Head(broadcast)))
    /\ broadcast' = Tail(broadcast)
    /\ lastMsg' = Head(broadcast)
    /\ UNCHANGED <<connVars, callVars, sendVars, restVars>>

\* ------------------------------------- dispatch orchestrator (service)
\* Variant: the minute equal to the end of the window counts as inside.
IsInQuietHours_EndInclusive(p, now) ==
    IF p.QuietHoursStart = Nil \/ p.QuietHoursEnd = Nil
    THEN FALSE
    ELSE IF p.QuietHoursStart > p.QuietHoursEnd
    THEN now >= p.QuietHoursStart \/ now <= p.QuietHoursEnd
    ELSE now >= p.QuietHoursStart /\ now <= p.QuietHoursEnd

\* NotificationPreferences.IsInQuietHours, with time.Now() as a parameter
IsInQuietHours(p, now) ==
    IF p.QuietHoursStart = Nil \/ p.QuietHoursEnd = Nil
    THEN FALSE
    ELSE IF p.QuietHoursStart > p.QuietHoursEnd
    THEN now >= p.QuietHoursStart \/ now < p.QuietHoursEnd
    ELSE now >= p.QuietHoursStart /\ now < p.QuietHoursEnd

\* Variant: a stored setting is ignored.
IsChannelEnabled_IgnoresSetting(p, channel) == TRUE

\* NotificationPreferences.IsChannelEnabled
IsChannelEnabled(p, channel) ==
    IF channel \in DOMAIN p.ChannelSettings
    THEN p.ChannelSettings[channel]
    ELSE TRUE

\* A call of p.IsInQuietHours() at some minute of the day.
Gate_IsInQuietHours ==
    /\ ~gate.quietCalled
    /\ \E now \in Minutes :
          gate' = [gate EXCEPT !.now = now, !.quietCalled = TRUE,
                               !.quiet = IsInQuietHours(gate.prefs, now)]
    /\ UNCHANGED <<hubVars, connVars, callVars, lastMsg, sendVars,
                   recVars, pushVars,
                   lockVars, pumpVars>>

\* A call of p.IsChannelEnabled(key).
Gate_IsChannelEnabled ==
    /\ ~gate.enabledCalled
    /\ \E key \in Keys :
          gate' = [gate EXCEPT !.key = key, !.enabledCalled = TRUE,
                               !.enabled = IsChannelEnabled(gate.prefs, key)]
    /\ UNCHANGED <<hubVars, connVars, callVars, lastMsg, sendVars,
                   recVars, pushVars,
                   lockVars, pumpVars>>

\* PreferencesRepository.Get: the row, or the defaults when there is none.
Get(e) ==
    IF e.stored.exists
    THEN [EmailEnabled |-> e.stored.EmailEnabled,
          PushEnabled |-> e.stored.PushEnabled,
          ChannelSettings |-> e.stored.channels,
          QuietHoursStart |-> e.stored.QuietHoursStart,
          QuietHoursEnd |-> e.stored.QuietHoursEnd]
    ELSE NewDefaultPreferences

\* domain.NewNotification: a record in pending status with a fresh id
NewNotification(id, user, type) ==
    [id |-> id, user |-> user, type |-> type, status |-> "pending",
     ReadAt |-> Nil]

\* NotificationRepository.Create
Create(n) ==
    [k \in DOMAIN store \cup {n.id} |->
        IF k = n.id THEN [user |-> n.user, type |-> n.type,
                          status |-> n.status, read_at |-> Nil]
        ELSE store[k]]

\* NotificationRepository.UpdateStatus
UpdateStatus(id, status) == [store EXCEPT ![id].status = status]

Last(seq) == seq[Len(seq)]
SetLast(seq, f, v) == [seq EXCEPT ![Len(seq)] = [@ EXCEPT ![f] = v]]

\* A send path was entered: what is known about it so far.
Attempt(ch, id, outcome) ==
    [channel |-> ch, id |-> id, outcome |-> outcome, upd |-> "none"]

\* Send, lines 72-84: load the preferences, defaults when Get fails.
Send_Begin(r, e) ==
    /\ pc = "idle"
    /\ req' = r
    /\ env' = e
    /\ prefs' = IF e.getErr THEN NewDefaultPreferences ELSE Get(e)
    /\ i' = 1
    /\ errors' = << >>
    /\ pc' = "quiet"
    /\ UNCHANGED <<hubVars, connVars, restVars, callVars, lastMsg,
                   ret, cur, store, attempts>>

\* Variant: quiet hours suppress every request, the critical ones included.
Send_QuietHours_NoBypass ==
    /\ pc = "quiet"
    /\ IF IsInQuietHours(prefs, env.now)
       THEN pc' = "done" /\ ret' = RetNil
       ELSE pc' = "loop" /\ ret' = ret
    /\ UNCHANGED <<hubVars, connVars, restVars, callVars, lastMsg,
                   req, env, prefs, i, errors, cur, store, attempts>>

\* Send, lines 86-93: the quiet-hours gate.
Send_QuietHours ==
    /\ pc = "quiet"
    /\ IF IsInQuietHours(prefs, env.now) /\ req.template \notin Critical
       THEN pc' = "done" /\ ret' = RetNil
       ELSE pc' = "loop" /\ ret' = ret
    /\ UNCHANGED <<hubVars, connVars, restVars, callVars, lastMsg,
                   req, env, prefs, i, errors, cur, store, attempts>>

\* Variant: the loop is left as soon as one channel has failed.
Send_Loop_StopOnError ==
    /\ pc = "loop"
    /\ IF i > Len(req.channels) \/ errors # << >>
       THEN /\ pc' = "done"
            /\ ret' = IF errors = << >> THEN RetNil
                      ELSE [nil |-> FALSE, errors |-> errors]
            /\ i' = i
       ELSE /\ ret' = ret
            /\ LET channel == req.channels[i]
               IN IF channel = "email"
                  THEN IF ~prefs.EmailEnabled
                       THEN pc' = pc /\ i' = i + 1
                       ELSE pc' = "sendEmail" /\ i' = i
                  ELSE IF channel = "push"
                  THEN IF ~prefs.PushEnabled
                       THEN pc' = pc /\ i' = i + 1
                       ELSE pc' = "sendPush" /\ i' = i
                  ELSE pc' = "sendInApp" /\ i' = i
    /\ UNCHANGED <<hubVars, connVars, restVars, callVars, lastMsg,
                   req, env, prefs, errors, cur, store, attempts>>

\* Send, lines 95-129: the head of the loop over req.Channels with the
\* per-channel enabled flags, and the return after the last channel.
Send_Loop ==
    /\ pc = "loop"
    /\ IF i > Len(req.channels)
       THEN /\ pc' = "done"
            /\ ret' = IF errors = << >> THEN RetNil
                      ELSE [nil |-> FALSE, errors |-> errors]
            /\ i' = i
       ELSE /\ ret' = ret
            /\ LET channel == req.channels[i]
               IN IF channel = "email"
                  THEN IF ~prefs.EmailEnabled
                       THEN pc' = pc /\ i' = i + 1
                       ELSE pc' = "sendEmail" /\ i' = i
                  ELSE IF channel = "push"
                  THEN IF ~prefs.PushEnabled
                       THEN pc' = pc /\ i' = i + 1
                       ELSE pc' = "sendPush" /\ i' = i
                  ELSE pc' = "sendInApp" /\ i' = i
    /\ UNCHANGED <<hubVars, connVars, restVars, callVars, lastMsg,
                   req, env, prefs, errors, cur, store, attempts>>

\* Variant: only the first error is kept.
Return_FirstErrorOnly(channel, err) ==
    /\ errors' = IF err = "nil" \/ errors # << >> THEN errors
                 ELSE Append(errors, [channel |-> channel, cause |-> err])
    /\ i' = i + 1
    /\ pc' = "loop"

\* Send, lines 119-121: a send path returned err (or nil); the error is
\* appended under the channel's name and the loop moves on.
Return(channel, err) ==
    /\ errors' = IF err = "nil" THEN errors
                 ELSE Append(errors, [channel |-> channel, cause |-> err])
    /\ i' = i + 1
    /\ pc' = "loop"

\* sendEmail, lines 132-154: sender and address checks, then the record.
sendEmail_Create ==
    /\ pc = "sendEmail"
    /\ IF ~env.emailSender
       THEN /\ attempts' = Append(attempts,
                                  Attempt("email", 0, "not_configured"))
            /\ Return("email", "email sender not configured")
            /\ UNCHANGED <<nextId, cur, store>>
       ELSE IF ~req.hasEmail
       THEN /\ attempts' = Append(attempts,
                                  Attempt("email", 0, "no_address"))
            /\ Return("email", "email address required")
            /\ UNCHANGED <<nextId, cur, store>>
       ELSE LET notification == NewNotification(nextId, req.user, "email")
            IN /\ nextId' = nextId + 1
               /\ \/ /\ store' = Create(notification)
                     /\ cur' = notification.id
                     /\ attempts' = Append(attempts,
                            Attempt("email", notification.id, "created"))
                     /\ pc' = "sendEmail_send"
                     /\ UNCHANGED <<i, errors>>
                  \/ /\ attempts' = Append(attempts,
                            Attempt("email", 0, "create_failed"))
                     /\ Return("email",
                               "failed to create notification record")
                     /\ UNCHANGED <<cur, store>>
    /\ UNCHANGED <<hubVars, connVars, restVars, notifyCall, notifyRet, lastMsg,
                   req, env, prefs, ret>>

\* sendEmail, lines 156-172: the call of the email sender.
sendEmail_Send ==
    /\ pc = "sendEmail_send"
    /\ \E outcome \in {"ok", "send_failed"} :
          attempts' = SetLast(attempts, "outcome", outcome)
    /\ pc' = "sendEmail_update"
    /\ UNCHANGED <<hubVars, connVars, restVars, callVars, lastMsg,
                   req, env, prefs, i, errors, ret, cur, store>>

\* Variant: the record is marked sent whatever the sender returned.
sendEmail_Update_AlwaysSent ==
    /\ pc = "sendEmail_update"
    /\ LET failed == Last(attempts).outcome = "send_failed"
       IN /\ \/ /\ store' = UpdateStatus(cur, "sent")
                /\ attempts' = SetLast(attempts, "upd", "applied")
             \/ /\ store' = store
                /\ attempts' = SetLast(attempts, "upd", "rejected")
          /\ Return("email", IF failed THEN "failed to send email" ELSE "nil")
    /\ UNCHANGED <<hubVars, connVars, restVars, callVars, lastMsg,
                   req, env, prefs, ret, cur>>

\* sendEmail, lines 174-185: the status update, whose own failure is only
\* logged, and the return.
sendEmail_Update ==
    /\ pc = "sendEmail_update"
    /\ LET failed == Last(attempts).outcome = "send_failed"
           status == IF failed THEN "failed" ELSE "sent"
       IN /\ \/ /\ store' = UpdateStatus(cur, status)
                /\ attempts' = SetLast(attempts, "upd", "applied")
             \/ /\ store' = store
                /\ attempts' = SetLast(attempts, "upd", "rejected")
          /\ Return("email", IF failed THEN "failed to send email" ELSE "nil")
    /\ UNCHANGED <<hubVars, connVars, restVars, callVars, lastMsg,
                   req, env, prefs, ret, cur>>

\* sendPush, lines 189-206: sender check, then the record.
sendPush_Create ==
    /\ pc = "sendPush"
    /\ IF ~env.pushSender
       THEN /\ attempts' = Append(attempts,
                                  Attempt("push", 0, "not_configured"))
            /\ Return("push", "push sender not configured")
            /\ UNCHANGED <<nextId, cur, store>>
       ELSE LET notification == NewNotification(nextId, req.user, "push")
            IN /\ nextId' = nextId + 1
               /\ \/ /\ store' = Create(notification)
                     /\ cur' = notification.id
                     /\ attempts' = Append(attempts,
                            Attempt("push", notification.id, "created"))
                     /\ pc' = "sendPush_send"
                     /\ UNCHANGED <<i, errors>>
                  \/ /\ attempts' = Append(attempts,
                            Attempt("push", 0, "create_failed"))
                     /\ Return("push",
                               "failed to create notification record")
                     /\ UNCHANGED <<cur, store>>
    /\ UNCHANGED <<hubVars, connVars, restVars, notifyCall, notifyRet, lastMsg,
                   req, env, prefs, ret>>

\* sendPush, lines 208-209: the call of the push sender.
sendPush_Send ==
    /\ pc = "sendPush_send"
    /\ \E outcome \in {"ok", "send_failed"} :
          attempts' = SetLast(attempts, "outcome", outcome)
    /\ pc' = "sendPush_update"
    /\ UNCHANGED <<hubVars, connVars, restVars, callVars, lastMsg,
                   req, env, prefs, i, errors, ret, cur, store>>

\* Variant: after a sender error the record is removed again.
sendPush_Update_Rollback ==
    /\ pc = "sendPush_update"
    /\ LET failed == Last(attempts).outcome = "send_failed"
       IN /\ \/ /\ store' = IF failed
                            THEN [k \in DOMAIN store \ {cur} |-> store[k]]
                            ELSE UpdateStatus(cur, "sent")
                /\ attempts' = SetLast(attempts, "upd", "applied")
             \/ /\ store' = store
                /\ attempts' = SetLast(attempts, "upd", "rejected")
          /\ Return("push", IF failed THEN "failed to send push" ELSE "nil")
    /\ UNCHANGED <<hubVars, connVars, restVars, callVars, lastMsg,
                   req, env, prefs, ret, cur>>

\* sendPush, lines 211-221: the status update and the return.
sendPush_Update ==
    /\ pc = "sendPush_update"
    /\ LET failed == Last(attempts).outcome = "send_failed"
           status == IF failed THEN "failed" ELSE "sent"
       IN /\ \/ /\ store' = UpdateStatus(cur, status)
                /\ attempts' = SetLast(attempts, "upd", "applied")
             \/ /\ store' = store
                /\ attempts' = SetLast(attempts, "upd", "rejected")
          /\ Return("push", IF failed THEN "failed to send push" ELSE "nil")
    /\ UNCHANGED <<hubVars, connVars, restVars, callVars, lastMsg,
                   req, env, prefs, ret, cur>>

\* Variant: when Create fails the record is handed to the hub all the same.
sendInApp_Create_NotifyAnyway ==
    /\ pc = "sendInApp"
    /\ LET notification == NewNotification(nextId, req.user, "in_app")
       IN /\ nextId' = nextId + 1
          /\ cur' = notification.id
          /\ \/ /\ store' = Create(notification)
                /\ attempts' = Append(attempts,
                       Attempt("in_app", notification.id, "created"))
                /\ pc' = "sendInApp_update"
             \/ /\ attempts' = Append(attempts,
                       Attempt("in_app", 0, "create_failed"))
                /\ pc' = "sendInApp_notify"
                /\ UNCHANGED store
          /\ UNCHANGED <<i, errors>>
    /\ UNCHANGED <<hubVars, connVars, restVars, notifyCall, notifyRet, lastMsg,
                   req, env, prefs, ret>>

\* sendInApp, lines 226-238: the record.
sendInApp_Create ==
    /\ pc = "sendInApp"
    /\ LET notification == NewNotification(nextId, req.user, "in_app")
       IN /\ nextId' = nextId + 1
          /\ \/ /\ store' = Create(notification)
                /\ cur' = notification.id
                /\ attempts' = Append(attempts,
                       Attempt("in_app", notification.id, "created"))
                /\ pc' = "sendInApp_update"
                /\ UNCHANGED <<i, errors>>
             \/ /\ attempts' = Append(attempts,
                       Attempt("in_app", 0, "create_failed"))
                /\ Return("in_app", "failed to create notification record")
                /\ UNCHANGED <<cur, store>>
    /\ UNCHANGED <<hubVars, connVars, restVars, notifyCall, notifyRet, lastMsg,
                   req, env, prefs, ret>>

\* Variant: the record is marked sent only when the user is connected.
sendInApp_Update_IfConnected ==
    /\ pc = "sendInApp_update"
    /\ \/ /\ store' = IF IsUserConnected(req.user)
                      THEN UpdateStatus(cur, "sent") ELSE store
          /\ attempts' = SetLast(attempts, "upd", "applied")
       \/ /\ store' = store
          /\ attempts' = SetLast(attempts, "upd", "rejected")
    /\ pc' = "sendInApp_notify"
    /\ UNCHANGED <<hubVars, connVars, restVars, callVars, lastMsg,
                   req, env, prefs, i, errors, ret, cur>>

\* sendInApp, lines 240-244: MarkAsSent on the record in memory and the
\* status update in the store, whose own failure is only logged.
sendInApp_Update ==
    /\ pc = "sendInApp_update"
    /\ \/ /\ store' = UpdateStatus(cur, "sent")
          /\ attempts' = SetLast(attempts, "upd", "applied")
       \/ /\ store' = store
          /\ attempts' = SetLast(attempts, "upd", "rejected")
    /\ pc' = "sendInApp_notify"
    /\ UNCHANGED <<hubVars, connVars, restVars, callVars, lastMsg,
                   req, env, prefs, i, errors, ret, cur>>

\* sendInApp, lines 246-254: hand the record, already marked sent in
\* memory, to Hub.Notify (which blocks while the broadcast buffer is full);
\* whatever Notify returns, sendInApp returns nil.
sendInApp_Notify ==
    /\ pc = "sendInApp_notify"
    /\ Len(broadcast) < BroadcastCap
    /\ broadcast' = Append(broadcast,
                           [user |-> req.user, id |-> cur, status |-> "sent"])
    /\ attempts' = SetLast(attempts, "outcome", "ok")
    /\ Return("in_app", "nil")
    /\ UNCHANGED <<clients, Send, sendClosed, hubPanic, dropped,
                   connVars, restVars, callVars, lastMsg,
                   req, env, prefs, ret, cur, store>>

Next ==
    \/ \E c \in Conns : HandleConnection(c)
    \/ \E c \in Conns : RunRegister(c)
    \/ \E c \in Conns : TransportFailure(c)
    \/ \E c \in Conns : readPump(c)
    \/ \E c \in Conns : RunUnregister(c)
    \/ \E c \in Conns : writePump(c)
    \/ \E u \in Users : CallNotify(u)
    \/ Notify
    \/ RunBroadcast

Spec == Init /\ [][Next]_vars

\* One Send call with every combination of request, configuration, stored
\* row and store/sender outcome; the hub runs without clients.
SendNext ==
    \/ pc = "idle" /\ \E r \in SendRequests, e \in SendEnvs : Send_Begin(r, e)
    \/ Send_QuietHours
    \/ Send_Loop
    \/ sendEmail_Create
    \/ sendEmail_Send
    \/ sendEmail_Update
    \/ sendPush_Create
    \/ sendPush_Send
    \/ sendPush_Update
    \/ sendInApp_Create
    \/ sendInApp_Update
    \/ sendInApp_Notify
    \/ RunBroadcast

SendSpec == Init /\ [][SendNext]_vars

\* The clients that connect in the in-app specification: both of u1.
InAppConns == {"c1", "c2"}

\* One in-app Send call next to the hub, its clients and the Notify calls
\* of other requests.
InAppNext ==
    \/ pc = "idle" /\ \E r \in InAppRequests, e \in InAppEnvs : Send_Begin(r, e)
    \/ Send_QuietHours
    \/ Send_Loop
    \/ sendInApp_Create
    \/ sendInApp_Update
    \/ sendInApp_Notify
    \/ \E c \in InAppConns : HandleConnection(c)
    \/ \E c \in InAppConns : RunRegister(c)
    \/ \E c \in InAppConns : writePump(c)
    \/ \E c \in InAppConns : CallNotify(UserID(c))
    \/ Notify
    \/ RunBroadcast

InAppSpec == Init /\ [][InAppNext]_vars

\* The clients that connect in the fair specification: one per user.
LiveConns == {"c1", "c3"}

LiveNext ==
    \/ \E c \in LiveConns : HandleConnection(c)
    \/ \E c \in LiveConns : RunRegister(c)
    \/ \E c \in LiveConns : TransportFailure(c)
    \/ \E c \in LiveConns : readPump(c)
    \/ \E c \in LiveConns : RunUnregister(c)
    \/ \E c \in LiveConns : writePump(c)
    \/ \E u \in Users : CallNotify(u)
    \/ Notify
    \/ RunBroadcast

\* The hub's control loop is scheduled whenever one of its select cases is
\* ready, and a blocked Notify proceeds once the buffer has room.  The pumps
\* and the peers get no fairness: a consumer may never drain its mailbox.
FairSpec ==
    /\ Init
    /\ [][LiveNext]_vars
    /\ \A c \in LiveConns : WF_vars(RunRegister(c))
    /\ \A c \in LiveConns : WF_vars(RunUnregister(c))
    /\ WF_vars(RunBroadcast)
    /\ WF_vars(Notify)

\* ------------------------------------- operations on a record
\* Notification.MarkAsSent / MarkAsDelivered / MarkAsFailed / MarkAsRead:
\* plain assignments on the struct.
MarkAsSent(n) == [n EXCEPT !.status = "sent"]
MarkAsDelivered(n) == [n EXCEPT !.status = "delivered"]
MarkAsFailed(n) == [n EXCEPT !.status = "failed"]
Notification_MarkAsRead(n, now) == [n EXCEPT !.ReadAt = now]

\* NotificationRepository.GetByID
GetByID(id) ==
    [id |-> id, user |-> store[id].user, type |-> store[id].type,
     status |-> store[id].status, ReadAt |-> store[id].read_at]

\* Variant: the UPDATE has no "read_at IS NULL" condition.
MarkAsRead_Unguarded(st, id, now) ==
    IF id \in DOMAIN st
    THEN [store |-> [st EXCEPT ![id].read_at = now], err |-> "nil"]
    ELSE [store |-> st, err |-> "not_found"]

\* NotificationRepository.MarkAsRead: UPDATE ... WHERE id = $1 AND read_at
\* IS NULL; ErrNotFound when no row was affected.
MarkAsRead(st, id, now) ==
    IF id \in DOMAIN st /\ st[id].read_at = Nil
    THEN [store |-> [st EXCEPT ![id].read_at = now], err |-> "nil"]
    ELSE [store |-> st, err |-> "not_found"]

\* NotificationRepository.MarkAllAsRead: UPDATE ... WHERE user_id = $1 AND
\* read_at IS NULL
MarkAllAsRead(st, u, now) ==
    [k \in DOMAIN st |->
        IF st[k].user = u /\ st[k].read_at = Nil
        THEN [st[k] EXCEPT !.read_at = now]
        ELSE st[k]]

Op(op, id, user, dbErr, result) ==
    [op |-> op, id |-> id, user |-> user, dbErr |-> dbErr, result |-> result]

\* NewNotification followed by NotificationRepository.Create, as the send
\* paths do it.
Rec_Create(u) ==
    /\ nextId <= MaxNotifs
    /\ LET n == NewNotification(nextId, u, "in_app")
       IN /\ mem' = n
          /\ store' = Create(n)
    /\ nextId' = nextId + 1
    /\ UNCHANGED <<hubVars, connVars, notifyCall, notifyRet, lastMsg,
                   pc, req, env, prefs, i, errors, ret, cur, attempts,
                   gateVars, clock, lastOp, pushVars,
                   lockVars, pumpVars>>

\* A call of one of the three status methods on the record held in memory.
Rec_MarkAsSent ==
    /\ mem # NoMem
    /\ mem' = MarkAsSent(mem)
    /\ UNCHANGED <<hubVars, connVars, callVars, lastMsg, sendVars,
                   gateVars, clock, lastOp, pushVars,
                   lockVars, pumpVars>>

Rec_MarkAsDelivered ==
    /\ mem # NoMem
    /\ mem' = MarkAsDelivered(mem)
    /\ UNCHANGED <<hubVars, connVars, callVars, lastMsg, sendVars,
                   gateVars, clock, lastOp, pushVars,
                   lockVars, pumpVars>>

Rec_MarkAsFailed ==
    /\ mem # NoMem
    /\ mem' = MarkAsFailed(mem)
    /\ UNCHANGED <<hubVars, connVars, callVars, lastMsg, sendVars,
                   gateVars, clock, lastOp, pushVars,
                   lockVars, pumpVars>>

\* A call of NotificationRepository.UpdateStatus(id, status): any status on
\* any existing row, ErrNotFound when there is no such row.
Rec_UpdateStatus(id, status) ==
    /\ IF id \in DOMAIN store
       THEN /\ store' = UpdateStatus(id, status)
            /\ lastOp' = Op("UpdateStatus", id, "none", FALSE, "nil")
       ELSE /\ store' = store
            /\ lastOp' = Op("UpdateStatus", id, "none", FALSE, "not_found")
    /\ UNCHANGED <<hubVars, connVars, callVars, lastMsg,
                   pc, req, env, prefs, i, errors, ret, cur, attempts,
                   gateVars, mem, clock, pushVars,
                   lockVars, pumpVars>>

\* NotificationService.GetNotification of an existing record.
Rec_GetByID(id) ==
    /\ id \in DOMAIN store
    /\ mem' = GetByID(id)
    /\ UNCHANGED <<hubVars, connVars, callVars, lastMsg, sendVars,
                   gateVars, clock, lastOp, pushVars,
                   lockVars, pumpVars>>

\* Notification.MarkAsRead on the record held in memory.
Rec_DomainMarkAsRead ==
    /\ mem # NoMem
    /\ clock <= MaxClock
    /\ mem' = Notification_MarkAsRead(mem, clock)
    /\ clock' = clock + 1
    /\ UNCHANGED <<hubVars, connVars, callVars, lastMsg, sendVars,
                   gateVars, lastOp, pushVars,
                   lockVars, pumpVars>>

\* NotificationService.MarkAsRead(id): the repository call, which may also
\* fail in the database.
Svc_MarkAsRead(id) ==
    /\ clock <= MaxClock
    /\ clock' = clock + 1
    /\ \/ LET r == MarkAsRead(store, id, clock)
          IN /\ store' = r.store
             /\ lastOp' = Op("MarkAsRead", id, "none", FALSE, r.err)
       \/ /\ store' = store
          /\ lastOp' = Op("MarkAsRead", id, "none", TRUE, "error")
    /\ UNCHANGED <<hubVars, connVars, callVars, lastMsg,
                   pc, req, env, prefs, i, errors, ret, cur, attempts,
                   gateVars, mem, pushVars,
                   lockVars, pumpVars>>

\* NotificationService.MarkAllAsRead(userID)
Svc_MarkAllAsRead(u) ==
    /\ clock <= MaxClock
    /\ clock' = clock + 1
    /\ \/ /\ store' = MarkAllAsRead(store, u, clock)
          /\ lastOp' = Op("MarkAllAsRead", 0, u, FALSE, "nil")
       \/ /\ store' = store
          /\ lastOp' = Op("MarkAllAsRead", 0, u, TRUE, "error")
    /\ UNCHANGED <<hubVars, connVars, callVars, lastMsg,
                   pc, req, env, prefs, i, errors, ret, cur, attempts,
                   gateVars, mem, pushVars,
                   lockVars, pumpVars>>

\* NotificationHandler.MarkAsRead, POST /notifications/:id/read by user u:
\* 404 when the record does not exist or belongs to someone else, 500 when
\* service.MarkAsRead returns an error, 200 otherwise.
Handler_MarkAsRead(u, id) ==
    /\ clock <= MaxClock
    /\ IF id \notin DOMAIN store \/ store[id].user # u
       THEN /\ lastOp' = Op("POST read", id, u, FALSE, "404")
            /\ UNCHANGED <<store, clock>>
       ELSE /\ clock' = clock + 1
            /\ \/ LET r == MarkAsRead(store, id, clock)
                  IN /\ store' = r.store
                     /\ lastOp' = Op("POST read", id, u, FALSE,
                                     IF r.err = "nil" THEN "200" ELSE "500")
               \/ /\ store' = store
                  /\ lastOp' = Op("POST read", id, u, TRUE, "500")
    /\ UNCHANGED <<hubVars, connVars, callVars, lastMsg,
                   pc, req, env, prefs, i, errors, ret, cur, attempts,
                   gateVars, mem, pushVars,
                   lockVars, pumpVars>>

\* Every order of the status-changing operations on the records of a user.
StatusNext ==
    \/ Rec_Create("u1")
    \/ Rec_MarkAsSent
    \/ Rec_MarkAsDelivered
    \/ Rec_MarkAsFailed
    \/ \E id \in 1..MaxNotifs, status \in Statuses :
          Rec_UpdateStatus(id, status)

StatusSpec == Init /\ [][StatusNext]_vars

\* Every order of the read-marking operations on the records of two users.
ReadNext ==
    \/ \E u \in Users : Rec_Create(u)
    \/ \E id \in 1..MaxNotifs : Rec_GetByID(id)
    \/ Rec_DomainMarkAsRead
    \/ \E id \in 1..MaxNotifs : Svc_MarkAsRead(id)
    \/ \E u \in Users : Svc_MarkAllAsRead(u)
    \/ \E u \in Users, id \in 1..MaxNotifs : Handler_MarkAsRead(u, id)

ReadSpec == Init /\ [][ReadNext]_vars

\* ------------------------------------- device tokens and push sends
\* DeviceTokenRepository.Create: insert, or on conflict take the row over
\* for the user and set is_active = true.
Token_Create(tk, u, t) ==
    [k \in DOMAIN tk \cup {t} |->
        IF k = t THEN [user |-> u, active |-> TRUE] ELSE tk[k]]

\* DeviceTokenRepository.Deactivate, for a set of tokens
Deactivate(tk, D) ==
    [k \in DOMAIN tk |->
        IF k \in D THEN [tk[k] EXCEPT !.active = FALSE] ELSE tk[k]]

\* DeviceTokenRepository.Delete
Token_Delete(tk, t) == [k \in DOMAIN tk \ {t} |-> tk[k]]

\* Variant: the query has no "is_active = true" condition.
Token_GetByUserID_Any(tk, u) == {t \in DOMAIN tk : tk[t].user = u}

\* DeviceTokenRepository.GetByUserID: the active tokens of the user
Token_GetByUserID(tk, u) ==
    {t \in DOMAIN tk : tk[t].user = u /\ tk[t].active}

\* The tokens of a response that IsUnregistered / IsInvalidArgument flag.
Flagged(resp) ==
    {t \in DOMAIN resp : resp[t] \in {"unregistered", "invalid"}}

\* DeviceTokenHandler.Register by user u with token t.
Register(u, t) ==
    /\ tokens' = Token_Create(tokens, u, t)
    /\ rejected' = rejected \ {t}
    /\ UNCHANGED <<hubVars, connVars, callVars, lastMsg, sendVars,
                   gateVars, recVars, lastPush,
                   lockVars, pumpVars>>

\* DeviceTokenHandler.Unregister by user u of token t: only the owner's
\* request deletes the row.
Unregister(u, t) ==
    /\ t \in DOMAIN tokens
    /\ tokens[t].user = u
    /\ tokens' = Token_Delete(tokens, t)
    /\ UNCHANGED <<hubVars, connVars, callVars, lastMsg, sendVars,
                   gateVars, recVars, lastPush, rejected,
                   lockVars, pumpVars>>

\* Client.SendToUser(userID): read the user's active tokens, send one
\* multicast, deactivate the tokens whose response is flagged unregistered
\* or invalid (the result of Deactivate is discarded), return nil; an error
\* only when the tokens cannot be read or the multicast call itself fails.
SendToUser_Body(u) ==
    /\ lastPush.seq < MaxPushes
    /\ LET toks == Token_GetByUserID(tokens, u)
           done(addressed, resp, r) ==
               lastPush' = [seq |-> lastPush.seq + 1, user |-> u,
                            addressed |-> addressed, resp |-> resp,
                            ret |-> r]
       IN \/ /\ done({}, << >>, "failed to get device tokens")
             /\ UNCHANGED <<tokens, rejected>>
          \/ /\ toks = {}
             /\ done({}, << >>, "nil")
             /\ UNCHANGED <<tokens, rejected>>
          \/ /\ toks # {}
             /\ done(toks, << >>, "failed to send multicast")
             /\ UNCHANGED <<tokens, rejected>>
          \/ /\ toks # {}
             /\ \E resp \in [toks -> Responses] :
                   \E D \in SUBSET Flagged(resp) :
                      /\ done(toks, resp, "nil")
                      /\ tokens' = Deactivate(tokens, D)
                      /\ rejected' = rejected \cup Flagged(resp)

\* A caller other than the orchestrator calls SendToUser.
SendToUser(u) ==
    /\ SendToUser_Body(u)
    /\ UNCHANGED <<hubVars, connVars, callVars, lastMsg, sendVars,
                   gateVars, recVars, lockVars, pumpVars>>

\* sendPush, line 212, with firebase.Client as the push sender: what
\* SendToUser returns decides between the two status updates.
sendPush_SendToUser ==
    /\ pc = "sendPush_send"
    /\ SendToUser_Body(req.user)
    /\ attempts' = SetLast(attempts, "outcome",
                           IF lastPush'.ret = "nil" THEN "ok"
                           ELSE "send_failed")
    /\ pc' = "sendPush_update"
    /\ UNCHANGED <<hubVars, connVars, callVars, lastMsg, gateVars, recVars,
                   lockVars, pumpVars,
                   req, env, prefs, i, errors, ret, cur, store>>

\* The requests of the push specification: push channels only, for a user
\* without a stored preferences row, with the push sender configured.
PushRequests ==
    {r \in [user : Users, hasEmail : {FALSE}, channels : ChannelLists,
            template : {"marketing"}] :
        /\ r.channels # << >>
        /\ \A k \in 1..Len(r.channels) : r.channels[k] = "push"}
PushEnvs ==
    [emailSender : {FALSE}, pushSender : {TRUE}, stored : {NoRow},
     getErr : {FALSE}, now : {720}]

\* One push Send call whose sender is firebase.Client, next to the
\* registration and removal of device tokens.
PushSendNext ==
    \/ \E u \in Users, t \in Tokens : Register(u, t)
    \/ \E u \in Users, t \in Tokens : Unregister(u, t)
    \/ pc = "idle" /\ \E r \in PushRequests, e \in PushEnvs : Send_Begin(r, e)
    \/ Send_QuietHours
    \/ Send_Loop
    \/ sendPush_Create
    \/ sendPush_SendToUser
    \/ sendPush_Update

PushSendSpec == Init /\ [][PushSendNext]_vars

PushNext ==
    \/ \E u \in Users, t \in Tokens : Register(u, t)
    \/ \E u \in Users, t \in Tokens : Unregister(u, t)
    \/ \E u \in Users : SendToUser(u)

PushSpec == Init /\ [][PushNext]_vars

\* The two methods of NotificationPreferences, called on every preference
\* value of GatePrefs.
GateInit ==
    /\ HubInit
    /\ SendInit
    /\ gate \in {[NoGate EXCEPT !.prefs = p] : p \in GatePrefs}
    /\ RecInit
    /\ PushInit
    /\ LockInit
    /\ PumpInit

GateNext ==
    \/ Gate_IsInQuietHours
    \/ Gate_IsChannelEnabled

GateSpec == GateInit /\ [][GateNext]_vars

\* ------------------------------------------ Hub.mu (hub.go, sync.RWMutex)
\* What a read-only function computes from a registry value m.
RECURSIVE SumSizesOf(_, _)
SumSizesOf(m, us) ==
    IF us = {} THEN 0
    ELSE LET u == CHOOSE x \in us : TRUE
         IN Cardinality(m[u]) + SumSizesOf(m, us \ {u})

ReadValue(m, op, u) ==
    CASE op = "GetConnectedUsers" -> Cardinality(DOMAIN m)
      [] op = "GetTotalConnections" -> SumSizesOf(m, DOMAIN m)
      [] op = "IsUserConnected" ->
            IF u \in DOMAIN m /\ Cardinality(m[u]) > 0 THEN 1 ELSE 0

\* registerClient and unregisterClient run under h.mu.Lock(): they wait
\* until no goroutine holds the read lock and exclude everybody until the
\* deferred Unlock.
Lock_RunRegister(c) ==
    /\ run.pc = "select"
    /\ mu = {}
    /\ RunRegister(c)

Lock_RunUnregister(c) ==
    /\ run.pc = "select"
    /\ mu = {}
    /\ RunUnregister(c)

\* broadcastToUser, lines 109-115: the message is received, the bucket is
\* looked up under RLock and the lock is released again.
broadcastToUser_Lookup ==
    /\ ~hubPanic
    /\ run.pc = "select"
    /\ broadcast # << >>
    /\ broadcast' = Tail(broadcast)
    /\ lastMsg' = Head(broadcast)
    /\ run' = IF Head(broadcast).user \in DOMAIN clients
              THEN [pc |-> "rlock", msg |-> Head(broadcast),
                    todo |-> clients[Head(broadcast).user]]
              ELSE RunIdle
    /\ UNCHANGED <<clients, Send, sendClosed, hubPanic, dropped, connVars,
                   callVars, sendVars, gateVars, recVars, pushVars, mu, rd,
                   pumpVars>>

\* broadcastToUser, line 123: h.mu.RLock() before the range loop.
broadcastToUser_RLock ==
    /\ run.pc = "rlock"
    /\ mu' = mu \cup {"Run"}
    /\ run' = [run EXCEPT !.pc = "range"]
    /\ UNCHANGED <<hubVars, connVars, callVars, lastMsg, sendVars,
                   gateVars, recVars, pushVars, rd,
                   pumpVars>>

\* broadcastToUser, lines 126-134: one iteration of the range loop, in the
\* order the map yields its keys.  A reader that is inside its own RLock
\* section while the bucket is written may see the bucket before or after
\* the write.
broadcastToUser_Range(c) ==
    /\ run.pc = "range"
    /\ c \in run.todo
    /\ LET s == SendOrDrop(HubState, run.msg.user, c, Marshal(run.msg))
       IN /\ SetHub(s)
          /\ rd' = IF "reader" \in mu /\ s.clients # clients
                   THEN [rd EXCEPT !.raced = TRUE,
                                   !.seen = @ \cup {ReadValue(s.clients, rd.op,
                                                              rd.user)}]
                   ELSE rd
    /\ run' = [run EXCEPT !.todo = @ \ {c}]
    /\ UNCHANGED <<broadcast, connVars, callVars, lastMsg, sendVars,
                   gateVars, recVars, pushVars, mu,
                   pumpVars>>

\* broadcastToUser, line 124: the deferred h.mu.RUnlock().
broadcastToUser_RUnlock ==
    /\ run.pc = "range"
    /\ run.todo = {}
    /\ mu' = mu \ {"Run"}
    /\ run' = RunIdle
    /\ UNCHANGED <<hubVars, connVars, callVars, lastMsg, sendVars,
                   gateVars, recVars, pushVars, rd,
                   pumpVars>>

\* GetConnectedUsers / GetTotalConnections / IsUserConnected: h.mu.RLock()
\* and the read of the registry.
Read_RLock(op, u) ==
    /\ rd.pc = "idle"
    /\ mu' = mu \cup {"reader"}
    /\ rd' = [pc |-> "locked", op |-> op, user |-> u,
              seen |-> {ReadValue(clients, op, u)}, result |-> Nil,
              raced |-> FALSE]
    /\ UNCHANGED <<hubVars, connVars, callVars, lastMsg, sendVars,
                   gateVars, recVars, pushVars, run,
                   pumpVars>>

\* The deferred h.mu.RUnlock() and the return of the value.
Read_RUnlock ==
    /\ rd.pc = "locked"
    /\ mu' = mu \ {"reader"}
    /\ \E v \in rd.seen : rd' = [rd EXCEPT !.pc = "idle", !.result = v]
    /\ UNCHANGED <<hubVars, connVars, callVars, lastMsg, sendVars,
                   gateVars, recVars, pushVars, run,
                   pumpVars>>

\* The clients that connect in the lock specification: two of u1.
LockConns == {"c1", "c2"}

\* The hub with the steps of broadcastToUser that take and release Hub.mu,
\* next to a goroutine that calls the read-only functions.
LockNext ==
    \/ \E c \in LockConns : HandleConnection(c)
    \/ \E c \in LockConns : Lock_RunRegister(c)
    \/ \E c \in LockConns : TransportFailure(c)
    \/ \E c \in LockConns : readPump(c)
    \/ \E c \in LockConns : Lock_RunUnregister(c)
    \/ \E c \in LockConns : writePump(c)
    \/ \E c \in LockConns : CallNotify(UserID(c))
    \/ Notify
    \/ broadcastToUser_Lookup
    \/ broadcastToUser_RLock
    \/ \E c \in LockConns : broadcastToUser_Range(c)
    \/ broadcastToUser_RUnlock
    \/ \E op \in ReadOps, u \in Users : Read_RLock(op, u)
    \/ Read_RUnlock

LockSpec == Init /\ [][LockNext]_vars

\* ------------------------------- writePump step by step (websocket.go)
\* writePump, lines 161-177: a payload is received from Client.Send (a closed
\* channel still yields what it has buffered).  With the Conn gone
\* NextWriter fails and writePump returns, the payload is lost.
writePump_Receive(c) ==
    /\ wp[c] = "running"
    /\ wbuf[c] = << >>
    /\ Send[c] # << >>
    /\ Send' = [Send EXCEPT ![c] = Tail(@)]
    /\ IF transport[c] = "up"
       THEN /\ wbuf' = [wbuf EXCEPT ![c] = <<Head(Send[c])>>]
            /\ UNCHANGED wp
       ELSE /\ wp' = [wp EXCEPT ![c] = "exited"]
            /\ UNCHANGED wbuf
    /\ UNCHANGED <<clients, broadcast, sendClosed, hubPanic, dropped,
                   connPc, transport, callVars, lastMsg, sendVars,
                   gateVars, recVars, pushVars, lockVars, written>>

\* Variant: the queued payloads are taken from the channel but only the
\* first payload is written.
writePump_Flush_FirstOnly(c) ==
    /\ wp[c] = "running"
    /\ wbuf[c] # << >>
    /\ Send' = [Send EXCEPT ![c] = << >>]
    /\ wbuf' = [wbuf EXCEPT ![c] = << >>]
    /\ IF transport[c] = "up"
       THEN /\ written' = [written EXCEPT ![c] = Append(@, wbuf[c])]
            /\ UNCHANGED wp
       ELSE /\ wp' = [wp EXCEPT ![c] = "exited"]
            /\ UNCHANGED written
    /\ UNCHANGED <<clients, broadcast, sendClosed, hubPanic, dropped,
                   connPc, transport, callVars, lastMsg, sendVars,
                   gateVars, recVars, pushVars, lockVars>>

\* writePump, lines 178-195: the received payload is written, then the
\* n = len(client.Send) payloads queued at that moment, each after a
\* newline, and w.Close() sends them as one text message.  Write errors are
\* logged only; when Close fails writePump returns.
writePump_Flush(c) ==
    /\ wp[c] = "running"
    /\ wbuf[c] # << >>
    /\ Send' = [Send EXCEPT ![c] = << >>]
    /\ wbuf' = [wbuf EXCEPT ![c] = << >>]
    /\ IF transport[c] = "up"
       THEN /\ written' = [written EXCEPT ![c] = Append(@, wbuf[c] \o Send[c])]
            /\ UNCHANGED wp
       ELSE /\ wp' = [wp EXCEPT ![c] = "exited"]
            /\ UNCHANGED written
    /\ UNCHANGED <<clients, broadcast, sendClosed, hubPanic, dropped,
                   connPc, transport, callVars, lastMsg, sendVars,
                   gateVars, recVars, pushVars, lockVars>>

\* writePump, lines 166-172: the channel is closed and empty; a close
\* message is written and the deferred Conn.Close() runs.
writePump_Closed(c) ==
    /\ wp[c] = "running"
    /\ wbuf[c] = << >>
    /\ Send[c] = << >>
    /\ sendClosed[c]
    /\ wp' = [wp EXCEPT ![c] = "exited"]
    /\ transport' = [transport EXCEPT ![c] = "down"]
    /\ UNCHANGED <<hubVars, connPc, callVars, lastMsg, sendVars,
                   gateVars, recVars, pushVars, lockVars, pumpVars>>

\* writePump, lines 197-205: the ticker fires and the ping cannot be
\* written.
writePump_Ping(c) ==
    /\ wp[c] = "running"
    /\ wbuf[c] = << >>
    /\ transport[c] = "down"
    /\ wp' = [wp EXCEPT ![c] = "exited"]
    /\ UNCHANGED <<hubVars, connPc, transport, callVars, lastMsg, sendVars,
                   gateVars, recVars, pushVars, lockVars, pumpVars>>

\* The clients that connect in the pump specification: two of u1.
PumpConns == {"c1", "c2"}

\* The hub and the connections, with writePump taken step by step and
\* everything it writes to the Conn recorded.
PumpNext ==
    \/ \E c \in PumpConns : HandleConnection(c)
    \/ \E c \in PumpConns : RunRegister(c)
    \/ \E c \in PumpConns : TransportFailure(c)
    \/ \E c \in PumpConns : readPump(c)
    \/ \E c \in PumpConns : RunUnregister(c)
    \/ \E c \in PumpConns : writePump_Receive(c)
    \/ \E c \in PumpConns : writePump_Flush(c)
    \/ \E c \in PumpConns : writePump_Closed(c)
    \/ \E c \in PumpConns : writePump_Ping(c)
    \/ \E c \in PumpConns : CallNotify(UserID(c))
    \/ Notify
    \/ RunBroadcast

PumpSpec == Init /\ [][PumpNext]_vars

\* The hub's control loop is scheduled whenever one of its select cases is
\* ready, and so are the two pumps of every connection: a failed or closed
\* Conn makes ReadMessage return, a closed channel or a pending payload
\* makes the select of writePump ready, and the ticker fires.
CloseSpec ==
    /\ Init
    /\ [][LiveNext]_vars
    /\ \A c \in LiveConns : WF_vars(RunRegister(c))
    /\ \A c \in LiveConns : WF_vars(RunUnregister(c))
    /\ WF_vars(RunBroadcast)
    /\ WF_vars(Notify)
    /\ \A c \in LiveConns : WF_vars(readPump(c))
    /\ \A c \in LiveConns : WF_vars(writePump(c))

\* One in-app Send call next to the hub and its clients; the orchestrator
\* is the only caller of Hub.Notify and every payload stays in its mailbox.
HistoryNext ==
    \/ pc = "idle" /\ \E r \in InAppRequests, e \in InAppEnvs : Send_Begin(r, e)
    \/ Send_QuietHours
    \/ Send_Loop
    \/ sendInApp_Create
    \/ sendInApp_Update
    \/ sendInApp_Notify
    \/ \E c \in InAppConns : HandleConnection(c)
    \/ \E c \in InAppConns : RunRegister(c)
    \/ RunBroadcast

HistorySpec == Init /\ [][HistoryNext]_vars

\* ================================================================ claims
\* A step of Run that handles a broadcast message.
IsBroadcastStep == broadcast # << >> /\ broadcast' = Tail(broadcast)

\* C1: when the hub handles notify(u, n), every client of u whose mailbox is
\* full is removed from the registry and its mailbox closed in that step;
\* every client of u with room stays registered and open and receives the
\* payload; every client outside u's bucket keeps its registration, its
\* mailbox and its open/closed state.
C1_OverflowDrop ==
    [][IsBroadcastStep =>
        LET m == Head(broadcast)
            bucket == IF m.user \in DOMAIN clients THEN clients[m.user] ELSE {}
        IN \A c \in Conns :
            IF c \in bucket
            THEN IF Len(Send[c]) >= MailboxCap
                 THEN /\ c \notin Registered'
                      /\ sendClosed'[c]
                      /\ Send'[c] = Send[c]
                 ELSE /\ BucketsOf(c)' = BucketsOf(c)
                      /\ ~sendClosed'[c]
                      /\ Send'[c] = Append(Send[c], Marshal(m))
            ELSE /\ BucketsOf(c)' = BucketsOf(c)
                 /\ sendClosed'[c] = sendClosed[c]
                 /\ Send'[c] = Send[c]]_vars

\* A full client was dropped by the broadcast just handled while another
\* client of the same user received that payload and stayed registered.
C1_Witness ==
    \E c \in dropped : \E d \in Registered :
        /\ UserID(d) = UserID(c)
        /\ sendClosed[c] /\ c \notin Registered
        /\ Len(Send[c]) = MailboxCap
        /\ lastMsg.user = UserID(c)
        /\ ~sendClosed[d]
        /\ Send[d] # << >>
        /\ Send[d][Len(Send[d])] = Marshal(lastMsg)

\* C2: the registry holds no user entry with an empty client set, so
\* GetConnectedUsers equals the number of users that have a registered
\* client.
C2_NoEmptyBuckets ==
    /\ \A u \in DOMAIN clients : clients[u] # {}
    /\ GetConnectedUsers =
         Cardinality({u \in Users : \E c \in Registered : UserID(c) = u})

\* C3: every registered client is in exactly one bucket, the one keyed by
\* its own user id, and no client with a closed mailbox is registered.
C3_OneBucketNoClosed ==
    \A c \in Registered :
        /\ BucketsOf(c) = {UserID(c)}
        /\ ~sendClosed[c]

\* Clients are registered while another one has been closed by unregister
\* and a third by an overflow drop.
C3_Witness ==
    /\ Registered # {}
    /\ \E c \in Conns \ dropped : sendClosed[c] /\ connPc[c] = "done"
    /\ \E d \in dropped : sendClosed[d]

\* C4: unregister of a client that is not in the registry does not panic
\* and changes nothing in the hub; unregister applied twice gives the same
\* state as applied once.
C4_UnregisterIdempotent ==
    /\ [](\A c \in Conns :
            LET s1 == unregisterClient(HubState, c)
            IN /\ ~s1.hubPanic
               /\ c \notin Registered => s1 = HubState
               /\ unregisterClient(s1, c) = s1)
    /\ [][\A c \in Conns :
            (connPc[c] = "unregistering" /\ connPc'[c] = "done"
             /\ c \notin Registered)
            => (UNCHANGED hubVars /\ ~hubPanic')]_vars

\* Run has handled the unregister of a client that an overflow drop had
\* already removed.
C4_Witness ==
    \E c \in dropped : connPc[c] = "done" /\ Registered # {}

\* The id carried by a serialized payload.
PayloadId(p) == p[2]

\* C5: handling notify(u, n) appends one and the same payload exactly once
\* to the mailbox of every client of u that has room, and payloads sit in
\* every mailbox in the order their notify calls were issued.
C5_SamePayloadInOrder ==
    /\ [][IsBroadcastStep =>
            LET m == Head(broadcast)
                bucket == IF m.user \in DOMAIN clients
                          THEN clients[m.user] ELSE {}
            IN \A c \in bucket :
                  Len(Send[c]) < MailboxCap
                  => Send'[c] = Append(Send[c], Marshal(m))]_vars
    /\ [](\A c \in Conns : \A a, b \in 1..Len(Send[c]) :
            a < b => PayloadId(Send[c][a]) < PayloadId(Send[c][b]))
    /\ [](\A a, b \in 1..Len(broadcast) :
            a < b => broadcast[a].id < broadcast[b].id)

\* Two clients of one user hold the same two payloads in the same order.
C5_Witness ==
    /\ {"c1", "c2"} \subseteq Registered
    /\ Len(Send["c1"]) = 2
    /\ Send["c1"] = Send["c2"]
    /\ PayloadId(Send["c1"][1]) < PayloadId(Send["c1"][2])

\* The part of the hub that belongs to the users other than u.
OthersView(u) ==
    [v \in Users \ {u} |->
        [present |-> v \in DOMAIN clients,
         bucket |-> IF v \in DOMAIN clients THEN clients[v] ELSE {},
         boxes |-> [c \in {x \in Conns : UserID(x) = v} |->
                      <<Send[c], sendClosed[c]>>]]]

\* C6: notify(u, n) leaves the bucket and the mailboxes of every other user
\* unchanged; when u has no registered client it changes nothing in the
\* registry or in any mailbox; the call returns nil.
C6_NotifyFrame ==
    /\ [][IsBroadcastStep =>
            \A u \in Users : u = Head(broadcast).user =>
               /\ OthersView(u)' = OthersView(u)
               /\ (u \notin DOMAIN clients \/ clients[u] = {})
                  => UNCHANGED <<clients, Send, sendClosed, hubPanic,
                                 dropped>>]_vars
    /\ [][(notifyCall # NoCall /\ notifyCall' = NoCall)
            => (notifyRet' = "nil"
                /\ UNCHANGED <<clients, Send, sendClosed, hubPanic>>)]_vars

\* A message for u2, who never had a client, has been handled while a
\* client of u1 is registered with a payload queued.
C6_Witness ==
    /\ lastMsg.user = "u2"
    /\ connPc["c3"] = "new"
    /\ notifyRet = "nil"
    /\ \E c \in Registered : Send[c] # << >>

\* C7: while the control loop keeps running, every call of Register,
\* Unregister and Notify returns, also when a target mailbox is full, and
\* Notify never returns an error.
C7_NoWaitOnSlowConsumer ==
    /\ \A c \in LiveConns : (connPc[c] = "registering")
                            ~> (connPc[c] # "registering")
    /\ \A c \in LiveConns : (connPc[c] = "unregistering")
                            ~> (connPc[c] = "done")
    /\ (notifyCall # NoCall) ~> (notifyCall = NoCall)
    /\ [](notifyRet # "err")
    /\ [](~hubPanic)

\* A Notify call returned after the hub had dropped a client whose mailbox
\* was full and nobody was draining.
C7_Witness ==
    /\ dropped # {}
    /\ notifyCall = NoCall
    /\ notifyRet = "nil"
    /\ broadcast = << >>
    /\ nextId > MaxNotifs

\* ------------------------------------------------ orchestrator claims
\* The per-channel gate of Send and the request-level quiet-hours gate.
PassesGate(channel) ==
    /\ channel = "email" => prefs.EmailEnabled
    /\ channel = "push" => prefs.PushEnabled

Suppressed == IsInQuietHours(prefs, env.now) /\ req.template \notin Critical

AttemptedChannels == [k \in 1..Len(attempts) |-> attempts[k].channel]

Failed(a) == a.outcome # "ok"

\* C8: a failing channel never keeps the remaining channels from being
\* attempted: when Send returns, the send paths invoked are exactly the
\* requested channels that pass the gate, in request order, whatever each
\* of them did.
C8_FailureDoesNotAbort ==
    pc = "done" =>
        AttemptedChannels =
            IF Suppressed THEN << >> ELSE SelectSeq(req.channels, PassesGate)

\* Send returned after a first channel that failed and a second, different
\* channel that was attempted and succeeded.
C8_Witness ==
    /\ pc = "done"
    /\ Len(attempts) = 2
    /\ Failed(attempts[1])
    /\ attempts[2].outcome = "ok"
    /\ attempts[1].channel # attempts[2].channel

\* The cause Send reports for a failed attempt.
Cause(a) ==
    CASE a.outcome = "not_configured" ->
            IF a.channel = "email" THEN "email sender not configured"
            ELSE "push sender not configured"
      [] a.outcome = "no_address" -> "email address required"
      [] a.outcome = "create_failed" -> "failed to create notification record"
      [] a.outcome = "send_failed" ->
            IF a.channel = "email" THEN "failed to send email"
            ELSE "failed to send push"

FailedAttempts == SelectSeq(attempts, Failed)

\* Send returns an error exactly when an attempted channel failed, and the
\* aggregate error lists the failed channels with their causes.
AggregateError ==
    pc = "done" =>
        /\ ret.nil <=> (FailedAttempts = << >>)
        /\ ret.errors = [k \in 1..Len(FailedAttempts) |->
                           [channel |-> FailedAttempts[k].channel,
                            cause |-> Cause(FailedAttempts[k])]]

\* Send returned for a request {email, push} whose email path succeeded
\* and whose push path failed.
EmailOkPushFailed ==
    /\ pc = "done"
    /\ req.channels \in {<<"email", "push">>, <<"push", "email">>}
    /\ Len(attempts) = 2
    /\ \A k \in 1..2 :
          attempts[k].outcome = "ok" <=> attempts[k].channel = "email"

WithStatus(st) == {id \in DOMAIN store : store[id].status = st}

\* C9, as claimed: error iff a channel failed, naming exactly the failed
\* channels; the request {email, push} with push failing and email
\* succeeding ends with one record sent, one record failed and an error
\* that mentions push only.
C9_AsClaimed ==
    /\ AggregateError
    /\ EmailOkPushFailed =>
          /\ Cardinality(WithStatus("sent")) = 1
          /\ Cardinality(WithStatus("failed")) = 1
          /\ [k \in 1..Len(ret.errors) |-> ret.errors[k].channel] = <<"push">>

\* The status a record has after the update step of its send path.
StatusAfter(a) ==
    IF a.upd = "applied"
    THEN (IF a.outcome = "send_failed" THEN "failed" ELSE "sent")
    ELSE "pending"

\* C9, amended: error iff a channel failed, naming exactly the failed
\* channels with their causes; for {email, push} with push failing and
\* email succeeding the error mentions push only, the email record is sent
\* and the push record failed when the store applies their status updates,
\* a record whose update the store rejects stays pending, and a push path
\* that failed before creating its record leaves no push record.
C9_AggregateError ==
    /\ AggregateError
    /\ EmailOkPushFailed =>
          /\ [k \in 1..Len(ret.errors) |-> ret.errors[k].channel] = <<"push">>
          /\ DOMAIN store = {attempts[k].id : k \in 1..2} \ {0}
          /\ \A k \in 1..2 :
                IF attempts[k].outcome \in {"ok", "send_failed"}
                THEN /\ attempts[k].id \in DOMAIN store
                     /\ store[attempts[k].id].type = attempts[k].channel
                     /\ store[attempts[k].id].status = StatusAfter(attempts[k])
                ELSE attempts[k].id = 0

\* Email sent, push sender failed, both status updates applied: one record
\* sent, one failed, the error names push.
C9_Witness ==
    /\ EmailOkPushFailed
    /\ \A k \in 1..2 : attempts[k].upd = "applied"
    /\ Cardinality(WithStatus("sent")) = 1
    /\ Cardinality(WithStatus("failed")) = 1
    /\ ~ret.nil
    /\ ret.errors[1].channel = "push"

\* An in_app send path that has returned.
InAppReturned(a) ==
    a.channel = "in_app" /\ a.outcome \in {"ok", "create_failed"}

\* C10, as claimed: every in_app send leaves a persisted record in sent
\* status.
C10_AsClaimed ==
    \A k \in 1..Len(attempts) :
        InAppReturned(attempts[k]) =>
            /\ attempts[k].id \in DOMAIN store
            /\ store[attempts[k].id].status = "sent"

\* C10, amended: whatever the hub holds for the user, an in_app send whose
\* record the store accepts leaves that record persisted, in sent status
\* when the store applies the status update and in pending when it rejects
\* it (the send still returns nil); when the store rejects the record
\* itself nothing is persisted and Send reports in_app as failed.
C10_InAppSentWhenStored ==
    /\ \A k \in 1..Len(attempts) :
          LET a == attempts[k]
          IN a.channel = "in_app" =>
               /\ a.outcome = "ok" =>
                     /\ a.id \in DOMAIN store
                     /\ store[a.id].type = "in_app"
                     /\ a.upd # "none"
                     /\ store[a.id].status = StatusAfter(a)
               /\ a.outcome = "create_failed" =>
                     /\ a.id = 0
                     /\ \E e \in 1..Len(errors) : errors[e].channel = "in_app"
    /\ pc = "done" =>
          Cardinality(DOMAIN store) =
              Len(SelectSeq(attempts, LAMBDA a : a.outcome = "ok"))

\* The record of an in_app send is persisted in sent status although the
\* hub, fanning it out, dropped a client of the user whose mailbox the
\* earlier notifications had filled.
C10_Witness ==
    /\ pc = "done"
    /\ \E k \in 1..Len(attempts) :
          /\ attempts[k].channel = "in_app"
          /\ attempts[k].outcome = "ok"
          /\ attempts[k].id = MailboxCap + 1
          /\ store[attempts[k].id].status = "sent"
          /\ lastMsg.id = attempts[k].id
    /\ \E c \in dropped : UserID(c) = req.user /\ Len(Send[c]) = MailboxCap
    /\ \E d \in Registered : UserID(d) = req.user

\* The request arrived inside the quiet-hours window of the preferences
\* Send loaded.
InQuiet == IsInQuietHours(prefs, env.now)

\* Every send path that was entered has returned.
AllReturned == \A k \in 1..Len(attempts) : attempts[k].outcome # "created"

\* C11: the quiet-hours gate is evaluated once, before the loop over the
\* channels: a non-critical request in quiet hours returns nil having
\* created no record and entered no send path (no sender call, no hub
\* notify); a critical request in quiet hours goes on to the loop with
\* nothing changed and runs the send path of every requested channel that
\* passes the per-channel gate, as outside quiet hours.
C11_QuietHoursGate ==
    /\ [][pc = "quiet" =>
            /\ pc' = IF Suppressed THEN "done" ELSE "loop"
            /\ Suppressed => ret' = RetNil
            /\ UNCHANGED <<store, attempts, nextId, broadcast, lastMsg,
                           errors, i, prefs, req, env, hubVars>>]_vars
    /\ []((pc = "done" /\ Suppressed) =>
            /\ store = << >>
            /\ attempts = << >>
            /\ nextId = 1
            /\ broadcast = << >> /\ lastMsg = NoCall
            /\ ret = RetNil)
    /\ []((pc = "done" /\ InQuiet /\ req.template \in Critical) =>
            /\ AttemptedChannels = SelectSeq(req.channels, PassesGate)
            /\ AllReturned)
    /\ [](pc \notin {"idle", "quiet", "done"} => ~Suppressed)

\* A marketing request for two enabled channels, with an address and both
\* senders configured, returned nil in quiet hours with nothing created.
C11_Witness ==
    /\ pc = "done"
    /\ Suppressed
    /\ req.template = "marketing"
    /\ Len(req.channels) = 2
    /\ \A k \in 1..2 : PassesGate(req.channels[k])
    /\ req.hasEmail /\ env.emailSender /\ env.pushSender
    /\ store = << >> /\ attempts = << >> /\ ret = RetNil


\* What the quiet-hours test is claimed to return for a window and a time.
InWindow(start, end, now) ==
    IF start = Nil \/ end = Nil THEN FALSE
    ELSE IF start > end THEN now >= start \/ now < end
    ELSE start <= now /\ now < end

\* C12, as claimed: the test is true exactly when the time is in the window
\* (wrapping past midnight when start > end), false when a bound is unset;
\* a time equal to start is in the window and a time equal to end is not.
C12_AsClaimed ==
    gate.quietCalled =>
        LET start == gate.prefs.QuietHoursStart
            end == gate.prefs.QuietHoursEnd
        IN /\ gate.quiet = InWindow(start, end, gate.now)
           /\ (start # Nil /\ end # Nil) =>
                 /\ gate.now = start => gate.quiet
                 /\ gate.now = end => ~gate.quiet

\* C12, amended: the test is true exactly when the time is in the window
\* (wrapping past midnight when start > end), false when a bound is unset;
\* when start differs from end a time equal to start is in the window and
\* a time equal to end is not; when start equals end the window is empty.
C12_QuietHoursWindow ==
    gate.quietCalled =>
        LET start == gate.prefs.QuietHoursStart
            end == gate.prefs.QuietHoursEnd
        IN /\ gate.quiet = InWindow(start, end, gate.now)
           /\ (start # Nil /\ end # Nil /\ start # end) =>
                 /\ gate.now = start => gate.quiet
                 /\ gate.now = end => ~gate.quiet
           /\ (start = Nil \/ end = Nil \/ start = end) => ~gate.quiet

\* The test was called at 07:00, the end of the window 22:00-07:00, and
\* returned false.
C12_Witness ==
    /\ gate.quietCalled
    /\ gate.prefs.QuietHoursStart = 1320
    /\ gate.prefs.QuietHoursEnd = 420
    /\ gate.now = 420
    /\ ~gate.quiet

\* The global flag that belongs to a key that names a channel.
GlobalFlag(p, key) ==
    IF key = "email" THEN p.EmailEnabled ELSE p.PushEnabled

Eligible(channel) ==
    IF req.template \in DOMAIN prefs.ChannelSettings
    THEN prefs.ChannelSettings[req.template]
    ELSE PassesGate(channel)

\* C14: the category override takes precedence over the global flag: when
\* Send returns without quiet-hours suppression, a requested channel whose
\* override for the request's template is disabled has no send path entered
\* and no record and no error, and one whose override is enabled has been
\* attempted although its global flag is off.
C14_OverridePrecedence ==
    (pc = "done" /\ ~Suppressed) =>
        /\ AttemptedChannels = SelectSeq(req.channels, Eligible)
        /\ \A k \in 1..Len(req.channels) :
              ~Eligible(req.channels[k]) =>
                 /\ \A id \in DOMAIN store : store[id].type # req.channels[k]
                 /\ \A e \in 1..Len(errors) :
                       errors[e].channel # req.channels[k]


\* The send paths of the email and push channels that created a record.
SenderAttempts ==
    {k \in 1..Len(attempts) :
        attempts[k].channel \in {"email", "push"} /\ attempts[k].id # 0}

\* C15, as claimed: an email or push record is in sent status only when its
\* sender call has returned success, and is in failed status once its
\* sender call has returned an error and the send path has returned.
C15_AsClaimed ==
    \A k \in SenderAttempts :
        LET a == attempts[k]
        IN /\ store[a.id].status = "sent" => a.outcome = "ok"
           /\ (a.outcome = "send_failed" /\ a.upd # "none")
                 => store[a.id].status = "failed"

\* C15, amended: an email or push record leaves pending only in the update
\* step that follows the return of its sender call, to sent when the call
\* returned success and to failed when it returned an error; it is never
\* sent while the call failed or has not returned; when the store rejects
\* the update the record stays pending, also after a sender error.
C15_SentOnlyAfterSuccess ==
    /\ [](\A k \in SenderAttempts :
            LET a == attempts[k]
            IN /\ store[a.id].type = a.channel
               /\ store[a.id].status = "sent"
                     => (a.outcome = "ok" /\ a.upd = "applied")
               /\ store[a.id].status = "failed"
                     => (a.outcome = "send_failed" /\ a.upd = "applied")
               /\ a.outcome = "created" => store[a.id].status = "pending"
               /\ store[a.id].status = StatusAfter(a))
    /\ [][\A id \in DOMAIN store :
            (store[id].type \in {"email", "push"}
             /\ store'[id].status # store[id].status)
            => /\ id = cur
               /\ store[id].status = "pending"
               /\ pc \in {"sendEmail_update", "sendPush_update"}
               /\ Last(attempts).id = id
               /\ store'[id].status =
                     IF Last(attempts).outcome = "ok" THEN "sent"
                     ELSE "failed"]_vars

\* Send returned after an email whose sender failed, with its record in
\* failed status, and a push whose sender succeeded, with its record sent.
C15_Witness ==
    /\ pc = "done"
    /\ Len(attempts) = 2
    /\ attempts[1].channel = "email" /\ attempts[1].outcome = "send_failed"
    /\ attempts[2].channel = "push" /\ attempts[2].outcome = "ok"
    /\ store[attempts[1].id].status = "failed"
    /\ store[attempts[2].id].status = "sent"


\* A change of status from a to b that the lifecycle allows: nothing leaves
\* failed or delivered, sent does not go back to pending, sending or failed.
ForwardOnly(a, b) ==
    /\ a \in {"failed", "delivered"} => b = a
    /\ a = "sent" => b \notin {"pending", "sending", "failed"}

\* C16: a record's status only moves forward, in the notifications table
\* and on the record held in memory, whatever status-changing operation is
\* applied to it.
C16_StatusOnlyForward ==
    [][/\ \A id \in DOMAIN store :
            ForwardOnly(store[id].status, store'[id].status)
       /\ (mem # NoMem /\ mem'.id = mem.id)
            => ForwardOnly(mem.status, mem'.status)]_vars

\* A step that marks a record as read: the repository call was made.
IsMarkStep(op) == clock' # clock /\ lastOp'.op = op /\ ~lastOp'.dbErr

\* C17: marking as read a record that is already read changes nothing and
\* reports success: nil from NotificationService.MarkAsRead, 200 from
\* POST /notifications/:id/read.
C17_RemarkSucceeds ==
    /\ [][(IsMarkStep("MarkAsRead")
           /\ lastOp'.id \in DOMAIN store
           /\ store[lastOp'.id].read_at # Nil)
          => (store' = store /\ lastOp'.result = "nil")]_vars
    /\ [][(IsMarkStep("POST read")
           /\ lastOp'.id \in DOMAIN store
           /\ store[lastOp'.id].user = lastOp'.user
           /\ store[lastOp'.id].read_at # Nil)
          => (store' = store /\ lastOp'.result = "200")]_vars

\* The read timestamp of a row of the notifications table is written at
\* most once, by the first MarkAsRead or MarkAllAsRead that reaches the row.
StoredReadAtOnce ==
    /\ [][\A id \in DOMAIN store :
            /\ store[id].read_at # Nil
                  => store'[id].read_at = store[id].read_at
            /\ store'[id].read_at # store[id].read_at
                  => (store'[id].read_at = clock /\ clock' = clock + 1)]_vars
    /\ [](\A id \in DOMAIN store : store[id].read_at < clock)

StoreNeverFailed ==
    \A k \in 1..Len(attempts) :
        attempts[k].outcome # "create_failed" /\ attempts[k].upd # "rejected"

\* C19: when Send returns and the store never failed, every requested
\* channel that passed the gate has exactly one persisted record of its
\* type, and the record of every channel Send reports as failed, a missing
\* email address or sender included, is in failed status.
C19_RecordForEveryAttempt ==
    (pc = "done" /\ StoreNeverFailed) =>
        /\ Cardinality(DOMAIN store) = Len(attempts)
        /\ \A k \in 1..Len(attempts) :
              LET a == attempts[k]
              IN /\ a.id \in DOMAIN store
                 /\ store[a.id].type = a.channel
                 /\ Failed(a) => store[a.id].status = "failed"

\* A step in which SendToUser was called.
IsPushStep == lastPush'.seq = lastPush.seq + 1

\* C20, as claimed: every token the provider flags as unregistered or
\* invalid in a push send is inactive after the send, and no push send
\* addresses a token flagged earlier and not registered again since.
C20_AsClaimed ==
    /\ [][IsPushStep =>
            \A t \in Flagged(lastPush'.resp) : ~tokens'[t].active]_vars
    /\ [][IsPushStep => lastPush'.addressed \cap rejected = {}]_vars

\* C20, amended: a push send addresses exactly the active tokens of its
\* user and deactivates flagged tokens only; a flagged token whose
\* deactivation the store applied is inactive after the send and is not
\* addressed by any later send until it is registered again; a flagged
\* token whose deactivation failed (the error is discarded) stays active
\* and is addressed again.
C20_DeactivatedNotAddressed ==
    /\ [][IsPushStep =>
            /\ lastPush'.addressed \in
                  {{}, Token_GetByUserID(tokens, lastPush'.user)}
            /\ DOMAIN tokens' = DOMAIN tokens
            /\ \A t \in DOMAIN tokens :
                  \/ tokens'[t] = tokens[t]
                  \/ /\ t \in Flagged(lastPush'.resp)
                     /\ tokens'[t] = [tokens[t] EXCEPT !.active = FALSE]
            /\ rejected' = rejected \cup Flagged(lastPush'.resp)
            /\ \A t \in rejected :
                  (t \in DOMAIN tokens /\ ~tokens[t].active)
                     => t \notin lastPush'.addressed]_vars
    /\ [][\A t \in DOMAIN tokens \cap DOMAIN tokens' :
            (~tokens[t].active /\ tokens'[t].active) => t \notin rejected']_vars

\* A later send to the user of a flagged, deactivated token addressed
\* another token of that user and not the deactivated one.
C20_Witness ==
    \E t \in rejected :
        /\ t \in DOMAIN tokens
        /\ ~tokens[t].active
        /\ lastPush.user = tokens[t].user
        /\ lastPush.seq >= 2
        /\ lastPush.addressed # {}
        /\ t \notin lastPush.addressed
        /\ lastPush.ret = "nil"


\* The channels named in the error Send returned.
ErrorChannels == {ret.errors[k].channel : k \in 1..Len(ret.errors)}

\* No record is removed, and a record changes only in the update step of
\* the send path that created it.
NoRollback ==
    [][/\ DOMAIN store \subseteq DOMAIN store'
       /\ \A id \in DOMAIN store :
             store'[id] # store[id]
                => /\ id = cur
                   /\ pc \in {"sendEmail_update", "sendPush_update",
                              "sendInApp_update"}
                   /\ store[id].status = "pending"]_vars

\* C21, as claimed: when the store rejects the creation of a record or a
\* status update during Send, the error Send returns names that channel,
\* and no record already created is removed or reset.
C21_AsClaimed ==
    /\ [](pc = "done" =>
            \A k \in 1..Len(attempts) :
               (attempts[k].outcome = "create_failed"
                \/ attempts[k].upd = "rejected")
               => (~ret.nil /\ attempts[k].channel \in ErrorChannels))
    /\ NoRollback

\* C21, amended: a rejected record creation is surfaced, the channel being
\* named in the error Send returns with the cause "failed to create
\* notification record"; a rejected status update is only logged and does
\* not by itself make Send return an error, the record staying in pending;
\* in both cases no record already created is removed or reset.
C21_CreateSurfacedUpdateLogged ==
    /\ [](pc = "done" =>
            /\ AggregateError
            /\ \A k \in 1..Len(attempts) :
                  LET a == attempts[k]
                  IN /\ a.outcome = "create_failed" =>
                          \E e \in 1..Len(ret.errors) :
                             /\ ret.errors[e].channel = a.channel
                             /\ ret.errors[e].cause =
                                   "failed to create notification record"
                     /\ a.upd = "rejected" =>
                          /\ store[a.id].status = "pending"
                          /\ (a.outcome = "ok" /\ Len(attempts) = 1)
                                => ret.nil)
    /\ NoRollback

\* Send returned an error for a second channel whose record the store
\* rejected, after a first channel whose record stays sent.
C21_Witness ==
    /\ pc = "done"
    /\ Len(attempts) = 2
    /\ attempts[1].outcome = "ok" /\ attempts[1].upd = "applied"
    /\ attempts[2].outcome = "create_failed"
    /\ DOMAIN store = {attempts[1].id}
    /\ store[attempts[1].id].status = "sent"
    /\ ErrorChannels = {attempts[2].channel}


\* C22: every mutation of the registry happens with exclusive access: no
\* goroutine is inside isUserConnected / connectedUserCount /
\* totalConnectionCount (holding the read lock, reading a bucket) in a step
\* that changes the registry.
C22_ExclusiveMutation ==
    [][clients' # clients => /\ "reader" \notin mu
                              /\ "reader" \notin mu']_vars


\* C23: every record the orchestrator creates starts in pending and follows
\* pending -> sending -> sent | failed: it is in sending while its channel
\* sender is being invoked, and reaches sent or failed only from sending.
C23_LifecycleThroughSending ==
    /\ [][\A id \in DOMAIN store' \ DOMAIN store :
            store'[id].status = "pending"]_vars
    /\ [](pc \in {"sendEmail_send", "sendPush_send", "sendInApp_notify"}
            => store[cur].status = "sending")
    /\ [][\A id \in DOMAIN store :
            (store'[id].status # store[id].status
             /\ store'[id].status \in {"sent", "failed"})
            => store[id].status = "sending"]_vars


\* The clients of u whose Register call has returned and that were neither
\* unregistered nor dropped so far.
LiveClients(u) ==
    {c \in Conns : /\ UserID(c) = u
                   /\ connPc[c] \in {"reading", "unregistering"}
                   /\ c \notin dropped}

\* C24, as claimed: when the hub processes notify(u, n), every client of u
\* whose register had returned and that was neither unregistered nor dropped
\* before gets n's payload appended to its mailbox.
C24_AsClaimed ==
    [][IsBroadcastStep =>
        \A c \in LiveClients(Head(broadcast).user) :
            Send'[c] = Append(Send[c], Marshal(Head(broadcast)))]_vars

\* C24, amended: when the hub processes notify(u, n), every client of u
\* whose register had returned and that was neither unregistered nor dropped
\* before is in u's bucket, and the step either appends n's payload to its
\* mailbox (the mailbox has room) or, the mailbox being full, drops it:
\* mailbox closed and unchanged, client removed.
C24_RegisteredBeforeNotify ==
    [][IsBroadcastStep =>
        \A c \in LiveClients(Head(broadcast).user) :
            /\ Head(broadcast).user \in DOMAIN clients
            /\ c \in clients[Head(broadcast).user]
            /\ IF Len(Send[c]) < MailboxCap
               THEN /\ Send'[c] = Append(Send[c], Marshal(Head(broadcast)))
                    /\ c \in Registered'
               ELSE /\ Send'[c] = Send[c]
                    /\ sendClosed'[c]
                    /\ c \in dropped'
                    /\ c \notin Registered']_vars

\* Two clients of one user registered, and the notification handled last
\* is the newest payload in the mailbox of each.
C24_Witness ==
    /\ lastMsg # NoCall
    /\ LiveClients(lastMsg.user) = {"c1", "c2"}
    /\ \A c \in {"c1", "c2"} :
          /\ Send[c] # << >>
          /\ Send[c][Len(Send[c])] = Marshal(lastMsg)


\* The payloads of a sequence of flushes, in the order they were written.
RECURSIVE Flatten(_)
Flatten(fs) == IF fs = << >> THEN << >> ELSE Head(fs) \o Flatten(Tail(fs))

\* Everything that was enqueued on c's mailbox and not lost: written,
\* received by writePump, or still queued.
Outbound(c) == Flatten(written[c]) \o wbuf[c] \o Send[c]

\* C25: while a connection's transport is healthy, what writePump writes is
\* what was enqueued, in enqueue order: no step loses, duplicates or
\* reorders a payload (a step either leaves the sequence written-or-queued
\* as it is, or is the hub appending one payload at the end of the queue),
\* every flush is the received payload followed by all payloads queued at
\* that moment, and writePump stops only when the mailbox is closed and
\* every payload enqueued on it has been written.
C25_WritesWhatWasEnqueued ==
    [][\A c \in Conns : transport[c] = "up" =>
            /\ \/ Outbound(c)' = Outbound(c)
               \/ /\ IsBroadcastStep
                  /\ Outbound(c)' = Append(Outbound(c), Marshal(Head(broadcast)))
                  /\ Send'[c] = Append(Send[c], Marshal(Head(broadcast)))
                  /\ written'[c] = written[c] /\ wbuf'[c] = wbuf[c]
            /\ written'[c] # written[c]
                  => /\ written'[c] = Append(written[c], wbuf[c] \o Send[c])
                     /\ Send'[c] = << >> /\ wbuf'[c] = << >>
            /\ (wp[c] = "running" /\ wp'[c] = "exited")
                  => /\ sendClosed[c]
                     /\ Outbound(c) = Flatten(written[c])]_vars

\* The hub closed c1's mailbox on overflow while it held MailboxCap
\* payloads; the transport is still healthy and writePump has written them
\* all, at least two of them in one flush.
C25_Witness ==
    /\ "c1" \in dropped
    /\ sendClosed["c1"]
    /\ transport["c1"] = "up"
    /\ wp["c1"] = "running"
    /\ Send["c1"] = << >> /\ wbuf["c1"] = << >>
    /\ Len(Flatten(written["c1"])) >= MailboxCap
    /\ \E k \in 1..Len(written["c1"]) : Len(written["c1"][k]) > 1


\* C26: under fair scheduling, a connection whose transport has failed or
\* timed out, or whose mailbox the hub has closed, is eventually absent from
\* the registry with its mailbox closed, and both its writePump and its
\* readPump have terminated.
C26_EventuallyCleanedUp ==
    \A c \in LiveConns :
        (transport[c] = "down" \/ sendClosed[c])
            ~> (/\ c \notin Registered
                /\ sendClosed[c]
                /\ wp[c] = "exited"
                /\ connPc[c] = "done")

\* The hub dropped c1 on overflow, writePump noticed the closed mailbox
\* first and closed the Conn, readPump then unregistered and returned.
C26_Witness ==
    /\ "c1" \in dropped
    /\ "c1" \notin Registered
    /\ sendClosed["c1"]
    /\ wp["c1"] = "exited"
    /\ connPc["c1"] = "done"


\* The channel's sender (for in_app: the hub's Notify) was called.
SenderCalled(channel) ==
    \E k \in 1..Len(attempts) :
        /\ attempts[k].channel = channel
        /\ attempts[k].outcome \in {"ok", "send_failed"}

\* C27: in every execution of Send, those in which reading the preferences
\* fails included, the email sender is not called for a user whose stored
\* preferences have email disabled, the push sender is not called for a
\* user whose stored preferences have push disabled, and nothing is sent
\* for a non-critical request while the stored quiet hours are in effect.
C27_StoredPreferencesRespected ==
    pc # "idle" =>
        /\ SenderCalled("email") => Get(env).EmailEnabled
        /\ SenderCalled("push") => Get(env).PushEnabled
        /\ (IsInQuietHours(Get(env), env.now) /\ req.template \notin Critical)
              => \A ch \in Channels : ~SenderCalled(ch)


\* C28: a client's Send channel is closed at most once and nothing is sent
\* on it once it is closed, in every interleaving of overflow drops,
\* unregisters and further notifies: the hub never panics on a second close
\* or on a send to a closed channel, a closed channel stays closed, and no
\* step adds a payload to it.
C28_ClosedOnceNeverSentTo ==
    /\ [](~hubPanic)
    /\ [][\A c \in Conns :
            /\ sendClosed[c] => /\ sendClosed'[c]
                                /\ Len(Send'[c]) <= Len(Send[c])
            /\ Len(Send'[c]) > Len(Send[c]) => ~sendClosed'[c]
            /\ (~sendClosed[c] /\ sendClosed'[c])
                  => /\ c \in Registered
                     /\ c \notin Registered']_vars

\* c1 was dropped on overflow, its readPump's unregister was handled
\* afterwards, and c2 of the same user is still registered and open.
C28_Witness ==
    /\ "c1" \in dropped
    /\ connPc["c1"] = "done"
    /\ sendClosed["c1"]
    /\ ~hubPanic
    /\ "c2" \in Registered
    /\ ~sendClosed["c2"]
    /\ Send["c2"] # << >>


\* The record with this id is in the user's persisted history.
InHistory(id, user) ==
    /\ id \in DOMAIN store
    /\ store[id].user = user
    /\ store[id].type = "in_app"

\* C29: a record is handed to Hub.Notify only after the store accepted it:
\* every message in the broadcast channel, every payload in a client's
\* mailbox and the message the hub handled last belong to a record that is
\* in the user's persisted history; the step in which Create fails
\* broadcasts nothing, and a send path whose Create failed never reaches
\* Notify.
C29_BroadcastOnlyPersisted ==
    /\ [](/\ \A k \in 1..Len(broadcast) :
                InHistory(broadcast[k].id, broadcast[k].user)
          /\ \A c \in Conns : \A k \in 1..Len(Send[c]) :
                /\ InHistory(Send[c][k][2], Send[c][k][4])
                /\ Send[c][k][4] = UserID(c)
          /\ lastMsg # NoCall => InHistory(lastMsg.id, lastMsg.user)
          /\ pc = "sendInApp_notify" =>
                /\ Last(attempts).outcome = "created"
                /\ InHistory(cur, req.user))
    /\ [][(Len(attempts') > Len(attempts)
           /\ Last(attempts').outcome = "create_failed")
          => /\ UNCHANGED <<broadcast, Send, lastMsg, store>>
             /\ pc' # "sendInApp_notify"]_vars

\* The first in_app send path failed to create its record and broadcast
\* nothing; the second one persisted its record, and the registered client
\* c1 holds exactly that record's payload.
C29_Witness ==
    /\ pc = "done"
    /\ Len(attempts) = 2
    /\ attempts[1].outcome = "create_failed"
    /\ attempts[2].outcome = "ok"
    /\ "c1" \in Registered
    /\ Len(Send["c1"]) = 1
    /\ Send["c1"][1][2] = attempts[2].id
    /\ InHistory(attempts[2].id, req.user)


\* The provider accepted the message of the last SendToUser call for at
\* least one of the tokens it addressed.
AcceptedSome ==
    \E t \in lastPush.addressed :
        t \in DOMAIN lastPush.resp /\ lastPush.resp[t] = "ok"

\* The provider answered for every addressed token and rejected them all.
RejectedAll ==
    /\ lastPush.addressed # {}
    /\ DOMAIN lastPush.resp = lastPush.addressed
    /\ \A t \in lastPush.addressed : lastPush.resp[t] # "ok"

\* C30: a push record ends in sent status only if the user had no active
\* device token or the provider accepted the message for at least one
\* active token; when the provider rejected it for every active token the
\* record is not marked sent and push appears in the errors of Send.
C30_SentOnlyIfAccepted ==
    [][(pc = "sendPush_update" /\ pc' # "sendPush_update") =>
        /\ (store'[cur].status = "sent")
              => (lastPush.ret = "nil"
                  /\ (lastPush.addressed = {} \/ AcceptedSome))
        /\ RejectedAll
              => /\ store'[cur].status # "sent"
                 /\ \E k \in 1..Len(errors') : errors'[k].channel = "push"]_vars

====
